---- MODULE Spec2Model ----
(***************************************************************************)
(* Digital-signage player: the file-based LRU video cache (CacheService,   *)
(* src/src/services/DiscordLogger.ts) and the dual-buffer PlayerScreen     *)
(* (src/unnamed/part_004).                                                 *)
(*                                                                         *)
(* Scheduling model of the cache: JavaScript runs one task at a time.  A   *)
(* call runs without interruption until it awaits a native operation       *)
(* (RNFS.exists, mkdir, readFile, writeFile, stat, unlink, downloadFile);  *)
(* awaits of already-settled promises are microtasks and run before any    *)
(* native completion is delivered.  So there is one action per native      *)
(* completion: it applies the native operation's effect, and then runs the *)
(* caller's code up to the next native await.  Native completions of       *)
(* different calls are delivered in any order.                             *)
(***************************************************************************)
EXTENDS Integers, Sequences, FiniteSets, Bags, TLC

\* ------------------------------------------------------------------ bounds
MaxCalls == 2          \* call slots: calls of the cache that can overlap
MaxIssued == 3         \* calls issued in one run with overlapping calls
MaxSeqIssued == 2      \* calls issued in one run with one call at a time
MaxTime == 2           \* distinct values Date.now() takes after the first
MaxFaults == 1         \* native operations that fail in one run

\* ------------------------------------------------------------- text helpers
\* Strings are sequences of UTF-16 code units, as charCodeAt reads them.
Slash == 47
Dot == 46
Question == 63
StrVideo == <<118, 105, 100, 101, 111>>
StrMp4 == <<109, 112, 52>>

\* Positions of code unit ch in s.
Positions(s, ch) == {i \in 1..Len(s) : s[i] = ch}

SetMax(S) == CHOOSE x \in S : \A y \in S : y <= x
SetMin(S) == CHOOSE x \in S : \A y \in S : x <= y

\* s.split(ch) ... last element (Array.prototype.pop / parts[parts.length-1])
LastPart(s, ch) ==
    IF Positions(s, ch) = {} THEN s
    ELSE SubSeq(s, SetMax(Positions(s, ch)) + 1, Len(s))

\* s.split(ch)[0]
FirstPart(s, ch) ==
    IF Positions(s, ch) = {} THEN s
    ELSE SubSeq(s, 1, SetMin(Positions(s, ch)) - 1)

\* 32-bit integers are pairs <<high 16 bits, low 16 bits>>, so that no
\* intermediate value leaves the range of the model checker's integers.
Half == 65536

\* hash = (hash << 5) - hash + char; hash |= 0
HashStep(h, char) ==
    LET lo == h[2] * 31 + char
        hi == h[1] * 31 + (lo \div Half)
    IN  <<hi % Half, lo % Half>>

RECURSIVE HashFrom(_, _, _)
HashFrom(h, str, i) ==
    IF i > Len(str) THEN h ELSE HashFrom(HashStep(h, str[i]), str, i + 1)

\* Math.abs of the signed 32-bit value (2^31 for -2^31, as a double)
Abs32(h) ==
    IF h[1] < 32768 THEN h
    ELSE IF h[2] = 0 THEN <<Half - h[1], 0>>
         ELSE <<Half - 1 - h[1], Half - h[2]>>

Base36Digit(d) == IF d < 10 THEN 48 + d ELSE 97 + d - 10

\* Number.prototype.toString(36) of a non-negative integer
RECURSIVE ToString36(_)
ToString36(h) ==
    LET r1 == h[1] % 36
        t == r1 * Half + h[2]
        q == <<h[1] \div 36, t \div 36>>
        d == Base36Digit(t % 36)
    IN  IF q = <<0, 0>> THEN <<d>> ELSE ToString36(q) \o <<d>>

simpleHash(str) == ToString36(Abs32(HashFrom(<<0, 0>>, str, 1)))

urlToFilename(url) ==
    LET seg == FirstPart(LastPart(url, Slash), Question)
        basename == IF seg = <<>> THEN StrVideo ELSE seg
        ext == IF Positions(basename, Dot) # {} THEN LastPart(basename, Dot)
               ELSE StrMp4
    IN  simpleHash(url) \o <<Dot>> \o ext


\* ------------------------------------------------------------ cache: data
MB == 1024 * 1024

UrlA == <<104, 47, 97, 46, 109, 112, 52>>          \* "h/a.mp4"
UrlB == <<104, 47, 98, 63, 118, 61, 49>>           \* "h/b?v=1"
UrlC == <<104, 47, 99, 46, 119, 101, 98, 109>>     \* "h/c.webm"
Urls == {UrlA, UrlB, UrlC}
NoUrl == <<>>

\* CACHE_DIR/<filename>; the directory is fixed, a path is named by its file
Filename == [u \in Urls |-> urlToFilename(u)]
Filenames == {Filename[u] : u \in Urls}

\* sizes RNFS.stat can report for a downloaded file
FileSizes == {60 * MB, 120 * MB}
\* size of a file a failed download leaves behind
PartialSize == MB
NoFile == -1

\* MAX_CACHE_MB_ENV as the build can set it; '200' when unset
MaxCacheMbChoices == {100, 200}

VARIABLES
    manifest,          \* this.manifest.entries
    initialized,       \* this.initialized
    activeDownloads,   \* this.activeDownloads: url -> owning call, 0 = no key
    dirExists,         \* CACHE_DIR exists on disk
    files,             \* filename -> size of the file in CACHE_DIR, or NoFile
    manifestFile,      \* <<>> = no _manifest.json, <<json>> = its content
    maxCacheMb,        \* MAX_CACHE_MB
    now,               \* Date.now()
    calls,             \* the calls of the cache in flight or returned
    issued,            \* calls issued so far
    faults,            \* native operations that failed so far
    downloadsStarted,  \* url -> number of RNFS.downloadFile calls
    lastReturned       \* Summary of the call that returned in the last step

cacheVars == <<manifest, initialized, activeDownloads, dirExists, files,
               manifestFile, maxCacheMb, now, calls, issued, faults,
               downloadsStarted, lastReturned>>

MAX_CACHE_BYTES == maxCacheMb * 1024 * 1024

Calls == 1..MaxCalls

Pending == [tag |-> "pending", file |-> <<>>]
Null == [tag |-> "null", file |-> <<>>]
Threw == [tag |-> "throw", file |-> <<>>]
Void == [tag |-> "void", file |-> <<>>]
Path(u) == [tag |-> "path", file |-> Filename[u]]

\* A call slot.  kind/url/pc are the call; entryLive..waitOn are the locals of
\* getCachedPath, saveManifest, evictOldVideos and prefetchVideo; the rest
\* records what the call observed, for the properties below.
IdleCall ==
    [kind |-> "none", url |-> NoUrl, pc |-> "idle", result |-> Pending,
     entryLive |-> FALSE,    \* `entry` is still an element of manifest.entries
     buf |-> <<>>,           \* JSON.stringify(this.manifest) handed to writeFile
     sorted |-> <<>>, i |-> 0, totalSize |-> 0,
     waitOn |-> 0,           \* the owner of the promise `active`
     snap |-> <<>>,          \* manifest.entries when evictOldVideos began
     started |-> FALSE,      \* the call ran _download
     uncached |-> FALSE,     \* a prefetch issued while the url was not cached
     peerStarted |-> FALSE,  \* an overlapping prefetch of the url ran _download
     after |-> FALSE,        \* issued right after a prefetch of the url
                             \* returned a path, nothing else since
     disturbed |-> FALSE,    \* a file was deleted out-of-band during the call
     stale |-> FALSE,        \* a lookup issued while the url had an entry
                             \* and no file
     seen |-> <<>>]          \* the entries when that lookup was issued

\* what a returned call leaves for the properties: its kind, url, result and
\* observations
Summary(cr) ==
    [kind |-> cr.kind, url |-> cr.url, result |-> cr.result,
     started |-> cr.started, peerStarted |-> cr.peerStarted, after |-> cr.after,
     disturbed |-> cr.disturbed, stale |-> cr.stale, seen |-> cr.seen]

NoReturn == Summary(IdleCall)

InFlight(cr) == cr.pc \notin {"idle", "done"}

\* ---------------------------------------------------------- cache: helpers
Range(s) == {s[k] : k \in 1..Len(s)}

\* this.manifest.entries.find((e) => e.url === url): its index, 0 = undefined
FindEntry(m, u) ==
    IF \E k \in 1..Len(m) : m[k].url = u
    THEN SetMin({k \in 1..Len(m) : m[k].url = u})
    ELSE 0

\* this.manifest.entries.filter((e) => e.url !== url)
FilterUrl(m, u) == SelectSeq(m, LAMBDA e : e.url # u)

\* entries.reduce((sum, e) => sum + e.size, 0)
RECURSIVE SumSizes(_, _)
SumSizes(m, k) == IF k = 0 THEN 0 ELSE SumSizes(m, k - 1) + m[k].size

getCacheSize(m) == SumSizes(m, Len(m))

\* the entry `find` returned left as it was
TouchNothing(m, u, t) == m

\* entry.accessedAt = Date.now() on the entry `find` returned
Touch(m, u, t) == [m EXCEPT ![FindEntry(m, u)].accessedAt = t]

\* [...entries].sort((a, b) => a.accessedAt - b.accessedAt): oldest first,
\* stable (equal accessedAt keep their manifest order)
InsertByAccess(s, e) ==
    LET k == Cardinality({j \in 1..Len(s) : s[j].accessedAt <= e.accessedAt})
    IN  SubSeq(s, 1, k) \o <<e>> \o SubSeq(s, k + 1, Len(s))

RECURSIVE SortPrefix(_, _)
SortPrefix(m, k) ==
    IF k = 0 THEN <<>> ELSE InsertByAccess(SortPrefix(m, k - 1), m[k])

\* the copy left unsorted: manifest order, oldest download first
SortByInsertion(m) == m
SortByAccessedAt(m) == SortPrefix(m, Len(m))

\* JSON.stringify(this.manifest) / JSON.parse(json): the file holds each entry
\* as the list of its four values
Stringify(m) ==
    [k \in 1..Len(m) |-> <<m[k].url, m[k].filename, m[k].size, m[k].accessedAt>>]

Parse(json) ==
    [k \in 1..Len(json) |->
        [url |-> json[k][1], filename |-> json[k][2], size |-> json[k][3],
         accessedAt |-> json[k][4]]]

\* _manifest.json as loadManifest would read it now
Persisted == IF manifestFile = <<>> THEN <<>> ELSE Parse(manifestFile[1])

\* the entries of the cache: in memory, or on disk before init has loaded them
Entries == IF initialized THEN manifest ELSE Persisted

\* the url is cached: an entry with its file on disk
Cached(u) == FindEntry(Entries, u) # 0 /\ files[Filename[u]] # NoFile

\* the loaded manifest has an entry for the url, and its file is gone
Stale(u) ==
    initialized /\ FindEntry(manifest, u) # 0 /\ files[Filename[u]] = NoFile


\* ----------------------------------------------------- player: variables
\* PlayerScreen, in its two versions: src/unnamed/part_004 ("resilient") and
\* src/src/screens/PlayerScreen.tsx ("simple")
VARIABLES
    variant,           \* which of the two versions is built
    playlist,          \* props.playlist: the url of each item
    currentIndex,      \* useState currentIndex, as last rendered
    activeSource,      \* useState activeSource
    currentIndexRef,   \* currentIndexRef.current
    standbySourceRef,  \* standbySourceRef.current; useState standbySource
                       \* in the simple version
    activeKey,         \* useState activeKey of the simple version
    sessionStartRef,   \* sessionStartRef.current
    lastProgressRef,   \* lastProgressRef.current
    lastEndEventRef,   \* lastEndEventRef.current
    loopCountRef,      \* loopCountRef.current
    clock,             \* Date.now() of the player, in ms
    loads,             \* loadVideo promises of this instance not yet settled
    errorTimers,       \* due times of the setTimeout(handleVideoEnd, 1000)
    errorSeen,         \* for each of these timers, what its closure holds
                       \* and what had happened when it was set
    nextTick,          \* due time of the next setInterval callback
    mountedKey,        \* key of the PlayerScreen instance that is mounted
    refreshLog,        \* reasons passed to onRefresh by this instance
    watchdogAt,        \* the times at which a watchdog raised a refresh
    lastHandled,       \* what the handleVideoEnd call of the last step found
    resumedAt,         \* the time of the last AppState 'active' event that
                       \* followed a stay in the background
    endsAccepted       \* handleVideoEnd calls that passed the debounce

playerVars == <<variant, playlist, currentIndex, activeSource, currentIndexRef,
                standbySourceRef, activeKey, sessionStartRef, lastProgressRef,
                lastEndEventRef, loopCountRef, clock, loads, errorTimers,
                errorSeen, nextTick, mountedKey, refreshLog, watchdogAt,
                lastHandled, resumedAt, endsAccepted>>

\* ------------------------------------------------------- app: variables
\* App (src/src/App.tsx) and the stores of SocketService
VARIABLES
    appState,          \* useState appState
    pairingCode,       \* useState pairingCode
    appPlaylist,       \* useState playlist of App: the url of each item
    playlistRef,       \* playlistRef.current
    orientation,       \* useState orientation
    deviceInfo,        \* useState deviceId, deviceCode, deviceName
    playerKey,         \* useState playerKey
    asyncStorage,      \* AsyncStorage item 'client_data': <<>> or <<json>>
    backupFile,        \* device_config.json: <<>> or <<json>>
    heartbeat,         \* the heartbeat timers of SocketService are set
    handlers,          \* handleMessage calls suspended at an await
    delivered,         \* messages handed to handleMessage so far
    lastMessage,       \* the message handled in the last step, and the
                       \* state it found
    sockets,           \* the sockets made by io(), in the order made
    socketRef,         \* this.socket: 0 for null, or a position in sockets
    connects,          \* connect() calls suspended at an await
    reconnectTimeout,  \* this.reconnectTimeout is a pending timer
    orphan,            \* the pending error timers of a PlayerScreen that was
                       \* unmounted, and the refs their callback reads
    resets,            \* the timer of scheduleDailyReset, the reload timers
                       \* that are pending, and the reload calls made
    webhook,           \* Config.DISCORD_WEBHOOK_URL is set
    lastSendTime,      \* lastSendTime of DiscordLogger
    emissions,         \* the clock readings of the webhook POSTs
    lastLog            \* the last sendDiscordLog call

socketVars == <<sockets, socketRef, connects, reconnectTimeout>>

logVars == <<webhook, lastSendTime, emissions, lastLog>>

appVars == <<appState, pairingCode, appPlaylist, playlistRef, orientation,
             deviceInfo, playerKey, asyncStorage, backupFile, heartbeat,
             handlers, delivered, lastMessage, socketVars, orphan, resets,
             logVars>>

vars == <<cacheVars, playerVars, appVars>>

\* ------------------------------------------------- cache: continuations
\* Each of these is the code a call runs, without awaiting a native
\* operation, from the point named.  k = [cs, ad, ds] holds calls,
\* activeDownloads and downloadsStarted as changed so far in the step.
K0 == [cs |-> calls, ad |-> activeDownloads, ds |-> downloadsStarted]

WithCalls(cs) == [K0 EXCEPT !.cs = cs]

\* the call returned r
Done(cs, c, r) == [cs EXCEPT ![c].pc = "done", ![c].result = r]

\* _download returned r: prefetchVideo's finally deletes the key and returns
\* r; every call that returned the promise `active` settles with r as well
FinishDownload(k, c, r) ==
    [k EXCEPT
        !.cs = [d \in Calls |->
                  IF d = c \/ (k.cs[d].pc = "await_active" /\ k.cs[d].waitOn = c)
                  THEN Done(k.cs, d, r)[d] ELSE k.cs[d]],
        !.ad = [k.ad EXCEPT ![k.cs[c].url] = 0]]

\* the calls that overlap a download of url u started by call c
Peers(cs, c, u) ==
    {d \in Calls \ {c} : /\ InFlight(cs[d]) /\ cs[d].kind = "prefetch"
                         /\ cs[d].url = u /\ cs[d].uncached /\ cs[c].uncached}

\* prefetchVideo after getCachedPath returned null: share the download in
\* progress, or start one
CheckActive(k, c) ==
    LET u == k.cs[c].url IN
    IF k.ad[u] # 0
    THEN [k EXCEPT !.cs = [k.cs EXCEPT ![c].pc = "await_active",
                                       ![c].waitOn = k.ad[u]]]
    ELSE [cs |-> [d \in Calls |->
                    IF d = c THEN [k.cs[d] EXCEPT !.pc = "dl_download",
                                                  !.started = TRUE]
                    ELSE IF d \in Peers(k.cs, c, u)
                         THEN [k.cs[d] EXCEPT !.peerStarted = TRUE]
                    ELSE k.cs[d]],
          ad |-> [k.ad EXCEPT ![u] = c],
          ds |-> [k.ds EXCEPT ![u] = @ + 1]]

\* getCachedPath returned r to its caller
GetReturned(k, c, r) ==
    IF k.cs[c].kind = "get" \/ r.tag = "path"
    THEN [k EXCEPT !.cs = Done(k.cs, c, r)]
    ELSE CheckActive(k, c)

\* getCachedPath from `find` to its first await, with this.manifest.entries = m
Lookup(k, c, m) ==
    IF FindEntry(m, k.cs[c].url) = 0
    THEN GetReturned(k, c, Null)
    ELSE [k EXCEPT !.cs = [k.cs EXCEPT ![c].pc = "get_exists",
                                       ![c].entryLive = TRUE]]

\* init() returned
AfterInit(k, c, m) ==
    IF k.cs[c].kind = "init"
    THEN [k EXCEPT !.cs = Done(k.cs, c, Void)]
    ELSE Lookup(k, c, m)

\* entries of url u left the array: calls holding one hold a detached object
Detach(cs, u) ==
    [d \in Calls |-> IF cs[d].url = u THEN [cs[d] EXCEPT !.entryLive = FALSE]
                     ELSE cs[d]]

DetachAll(cs) == [d \in Calls |-> [cs[d] EXCEPT !.entryLive = FALSE]]

\* the step ends: returned calls leave their slots
Commit(k) ==
    LET back == {c \in Calls : k.cs[c].pc = "done"} IN
    /\ calls' = [c \in Calls |-> IF c \in back THEN IdleCall ELSE k.cs[c]]
    /\ activeDownloads' = k.ad
    /\ downloadsStarted' = k.ds
    /\ lastReturned' = IF back = {} THEN NoReturn
                       ELSE Summary(k.cs[SetMin(back)])

\* a native operation completes: ok, or it rejects (at most MaxFaults do)
Outcome(ok) ==
    /\ ~ok => faults < MaxFaults
    /\ faults' = IF ok THEN faults ELSE faults + 1

\* RNFS.writeFile(MANIFEST_PATH, buf) completes; saveManifest swallows a failure
WriteManifest(c, ok) ==
    /\ manifestFile' = IF ok /\ dirExists THEN <<calls[c].buf>> ELSE manifestFile
    /\ UNCHANGED <<dirExists, files>>

PlayerIdle == UNCHANGED <<playerVars, appVars>>

\* --------------------------------------------------- cache: issuing calls
FreeSlots == {c \in Calls : ~InFlight(calls[c])}

\* A caller invokes init / getCachedPath / prefetchVideo / clearAll: the call
\* runs to its first native await.  With seq the caller awaits each call
\* before it issues the next.
Issue(c, kind, u, seq) ==
    /\ issued < (IF seq THEN MaxSeqIssued ELSE MaxIssued)
    /\ FreeSlots # {} /\ c = SetMin(FreeSlots)
    /\ seq => FreeSlots = Calls
    /\ issued' = issued + 1
    /\ LET cs0 == [d \in Calls |-> [calls[d] EXCEPT !.after = FALSE]]
           nc == [IdleCall EXCEPT
                     !.kind = kind, !.url = u,
                     !.uncached = (kind = "prefetch" /\ ~Cached(u)),
                     !.peerStarted =
                         /\ kind = "prefetch"
                         /\ \E d \in Calls :
                              /\ InFlight(calls[d]) /\ calls[d].kind = "prefetch"
                              /\ calls[d].url = u /\ calls[d].uncached
                              /\ calls[d].started,
                     !.after = /\ kind = "prefetch"
                               /\ lastReturned.kind = "prefetch"
                               /\ lastReturned.url = u
                               /\ lastReturned.result = Path(u)
                               /\ ~lastReturned.disturbed,
                     !.stale = (kind = "get" /\ Stale(u)),
                     !.seen = IF kind = "get" /\ Stale(u) THEN manifest ELSE <<>>]
           cs1 == [cs0 EXCEPT ![c] = nc]
       IN  Commit(IF kind = "clearAll"
                  THEN WithCalls([cs1 EXCEPT ![c].pc = "clear_exists"])
                  ELSE IF ~initialized
                  THEN WithCalls([cs1 EXCEPT ![c].pc = "init_exists"])
                  ELSE AfterInit(WithCalls(cs1), c, manifest))
    /\ UNCHANGED <<manifest, initialized, dirExists, files, manifestFile,
                   maxCacheMb, now, faults>>
    /\ PlayerIdle

init(c, seq) == Issue(c, "init", NoUrl, seq)
getCachedPath(c, u, seq) == Issue(c, "get", u, seq)
prefetchVideo(c, u, seq) == Issue(c, "prefetch", u, seq)
clearAll(c, seq) == Issue(c, "clearAll", NoUrl, seq)

\* ------------------------------------------------------------ cache: init
\* init: RNFS.exists(CACHE_DIR) completes
InitExistsDone(c) ==
    /\ calls[c].pc = "init_exists"
    /\ \E ok \in BOOLEAN :
        /\ Outcome(ok)
        /\ Commit(WithCalls(
              IF ~ok THEN Done(calls, c, Threw)
              ELSE IF dirExists THEN [calls EXCEPT ![c].pc = "load_exists"]
              ELSE [calls EXCEPT ![c].pc = "init_mkdir"]))
    /\ UNCHANGED <<manifest, initialized, dirExists, files, manifestFile,
                   maxCacheMb, now, issued>>
    /\ PlayerIdle

\* init: RNFS.mkdir(CACHE_DIR) completes
InitMkdirDone(c) ==
    /\ calls[c].pc = "init_mkdir"
    /\ \E ok \in BOOLEAN :
        /\ Outcome(ok)
        /\ dirExists' = (dirExists \/ ok)
        /\ Commit(WithCalls(
              IF ok THEN [calls EXCEPT ![c].pc = "load_exists"]
              ELSE Done(calls, c, Threw)))
    /\ UNCHANGED <<manifest, initialized, files, manifestFile, maxCacheMb, now,
                   issued>>
    /\ PlayerIdle

\* loadManifest: RNFS.exists(MANIFEST_PATH) completes
LoadExistsDone(c) ==
    /\ calls[c].pc = "load_exists"
    /\ \E ok \in BOOLEAN :
        /\ Outcome(ok)
        /\ IF ok /\ manifestFile # <<>>
           THEN /\ Commit(WithCalls([calls EXCEPT ![c].pc = "load_read"]))
                /\ UNCHANGED <<manifest, initialized>>
           ELSE \* no file: manifest untouched; exists threw: catch resets it
                /\ manifest' = IF ok THEN manifest ELSE <<>>
                /\ initialized' = TRUE
                /\ Commit(AfterInit(
                      WithCalls(IF ok THEN calls ELSE DetachAll(calls)),
                      c, manifest'))
    /\ UNCHANGED <<dirExists, files, manifestFile, maxCacheMb, now, issued>>
    /\ PlayerIdle

\* loadManifest: RNFS.readFile completes; this.manifest = JSON.parse(json)
LoadReadDone(c) ==
    /\ calls[c].pc = "load_read"
    /\ \E ok \in BOOLEAN :
        /\ Outcome(ok)
        /\ manifest' = IF ok /\ manifestFile # <<>> THEN Parse(manifestFile[1])
                       ELSE <<>>
    /\ initialized' = TRUE
    /\ Commit(AfterInit(WithCalls(DetachAll(calls)), c, manifest'))
    /\ UNCHANGED <<dirExists, files, manifestFile, maxCacheMb, now, issued>>
    /\ PlayerIdle

\* --------------------------------------------------- cache: getCachedPath
\* getCachedPath: RNFS.exists(filePath) completes
GetExistsDone(c) ==
    LET u == calls[c].url
        exists == files[Filename[u]] # NoFile
    IN
    /\ calls[c].pc = "get_exists"
    /\ \E ok \in BOOLEAN :
        /\ Outcome(ok)
        /\ IF ~ok
           THEN /\ Commit(WithCalls(Done(calls, c, Threw)))
                /\ UNCHANGED manifest
           ELSE IF ~exists
           THEN /\ manifest' = FilterUrl(manifest, u)
                /\ Commit(WithCalls([Detach(calls, u) EXCEPT
                                ![c].pc = "get_miss_save",
                                ![c].buf = Stringify(manifest')]))
           ELSE /\ manifest' = IF calls[c].entryLive THEN Touch(manifest, u, now)
                               ELSE manifest
                /\ Commit(WithCalls([calls EXCEPT
                                ![c].pc = "get_hit_save",
                                ![c].buf = Stringify(manifest')]))
    /\ UNCHANGED <<initialized, dirExists, files, manifestFile, maxCacheMb, now,
                   issued>>
    /\ PlayerIdle

\* getCachedPath, file missing: saveManifest completes; return null
GetMissSaved(c) ==
    /\ calls[c].pc = "get_miss_save"
    /\ \E ok \in BOOLEAN :
        /\ Outcome(ok)
        /\ WriteManifest(c, ok)
    /\ Commit(GetReturned(K0, c, Null))
    /\ UNCHANGED <<manifest, initialized, maxCacheMb, now, issued>>
    /\ PlayerIdle

\* getCachedPath, hit: saveManifest completes; return filePath
GetHitSaved(c) ==
    /\ calls[c].pc = "get_hit_save"
    /\ \E ok \in BOOLEAN :
        /\ Outcome(ok)
        /\ WriteManifest(c, ok)
    /\ Commit(GetReturned(K0, c, Path(calls[c].url)))
    /\ UNCHANGED <<manifest, initialized, maxCacheMb, now, issued>>
    /\ PlayerIdle

\* ------------------------------------------------------- cache: _download
\* RNFS.downloadFile(...).promise settles: status 200 with the file written,
\* another status (a body may have been written), or a rejection (a partial
\* file may be left).  Nothing is written into a missing directory.
DownloadDone(c) ==
    LET u == calls[c].url
        f == Filename[u]
    IN
    /\ calls[c].pc = "dl_download"
    /\ \/ \E size \in FileSizes :
            /\ dirExists
            /\ Outcome(TRUE)
            /\ files' = [files EXCEPT ![f] = size]
            /\ Commit(WithCalls([calls EXCEPT ![c].pc = "dl_stat"]))
       \/ \E body \in BOOLEAN :
            /\ body => dirExists
            /\ Outcome(FALSE)
            /\ files' = IF body THEN [files EXCEPT ![f] = PartialSize] ELSE files
            /\ Commit(WithCalls([calls EXCEPT ![c].pc = "dl_fail_exists"]))
       \/ \E partial \in BOOLEAN :
            /\ partial => dirExists
            /\ IF dirExists THEN Outcome(FALSE) ELSE UNCHANGED faults
            /\ files' = IF partial THEN [files EXCEPT ![f] = PartialSize]
                        ELSE files
            /\ Commit(FinishDownload(K0, c, Null))
    /\ UNCHANGED <<manifest, initialized, dirExists, manifestFile, maxCacheMb,
                   now, issued>>
    /\ PlayerIdle

\* _download, statusCode !== 200: RNFS.exists(filePath) completes
FailExistsDone(c) ==
    /\ calls[c].pc = "dl_fail_exists"
    /\ \E ok \in BOOLEAN :
        /\ Outcome(ok)
        /\ Commit(IF ok /\ files[Filename[calls[c].url]] # NoFile
                  THEN WithCalls([calls EXCEPT ![c].pc = "dl_fail_unlink"])
                  ELSE FinishDownload(K0, c, Null))
    /\ UNCHANGED <<manifest, initialized, dirExists, files, manifestFile,
                   maxCacheMb, now, issued>>
    /\ PlayerIdle

\* _download, statusCode !== 200: RNFS.unlink(filePath) completes
FailUnlinkDone(c) ==
    /\ calls[c].pc = "dl_fail_unlink"
    /\ \E ok \in BOOLEAN :
        /\ Outcome(ok)
        /\ files' = IF ok THEN [files EXCEPT ![Filename[calls[c].url]] = NoFile]
                    ELSE files
    /\ Commit(FinishDownload(K0, c, Null))
    /\ UNCHANGED <<manifest, initialized, dirExists, manifestFile, maxCacheMb,
                   now, issued>>
    /\ PlayerIdle

\* _download: RNFS.stat(filePath) completes; push the entry, saveManifest
StatDone(c) ==
    LET u == calls[c].url
        f == Filename[u]
    IN
    /\ calls[c].pc = "dl_stat"
    /\ \E ok \in BOOLEAN :
        /\ Outcome(ok)
        /\ IF ok /\ files[f] # NoFile
           THEN /\ manifest' = Append(manifest,
                                  [url |-> u, filename |-> f, size |-> files[f],
                                   accessedAt |-> now])
                /\ Commit(WithCalls([calls EXCEPT
                                ![c].pc = "dl_save",
                                ![c].buf = Stringify(manifest')]))
           ELSE /\ UNCHANGED manifest
                /\ Commit(FinishDownload(K0, c, Null))
    /\ UNCHANGED <<initialized, dirExists, files, manifestFile, maxCacheMb, now,
                   issued>>
    /\ PlayerIdle


\* ------------------------------------------------ cache: evictOldVideos
\* evictOldVideos from its first line to its first await (or its return when
\* the total is within budget), with this.manifest.entries = m
EvictStart(k, c, m) ==
    IF getCacheSize(m) <= MAX_CACHE_BYTES
    THEN FinishDownload(k, c, Path(k.cs[c].url))
    ELSE [k EXCEPT !.cs = [k.cs EXCEPT
                              ![c].pc = "ev_exists", ![c].snap = m,
                              ![c].sorted = SortByAccessedAt(m), ![c].i = 1,
                              ![c].totalSize = getCacheSize(m)]]

\* the loop body after its try block: drop the entry, then the next iteration
\* (its break test) up to the next await
EvictNext(c) ==
    LET entry == calls[c].sorted[calls[c].i]
        total == calls[c].totalSize - entry.size
        more == calls[c].i < Len(calls[c].sorted) /\ total > MAX_CACHE_BYTES
    IN
    /\ manifest' = FilterUrl(manifest, entry.url)
    /\ Commit(WithCalls([Detach(calls, entry.url) EXCEPT
                    ![c].totalSize = total,
                    ![c].i = @ + 1,
                    ![c].pc = IF more THEN "ev_exists" ELSE "ev_save",
                    ![c].buf = IF more THEN <<>> ELSE Stringify(manifest')]))

\* _download: saveManifest completes; evictOldVideos begins
DownloadSaved(c) ==
    /\ calls[c].pc = "dl_save"
    /\ \E ok \in BOOLEAN :
        /\ Outcome(ok)
        /\ WriteManifest(c, ok)
    /\ Commit(EvictStart(K0, c, manifest))
    /\ UNCHANGED <<manifest, initialized, maxCacheMb, now, issued>>
    /\ PlayerIdle

\* evictOldVideos: RNFS.exists(filePath) of the entry completes
EvictExistsDone(c) ==
    /\ calls[c].pc = "ev_exists"
    /\ \E ok \in BOOLEAN :
        /\ Outcome(ok)
        /\ IF ok /\ files[calls[c].sorted[calls[c].i].filename] # NoFile
           THEN /\ Commit(WithCalls([calls EXCEPT ![c].pc = "ev_unlink"]))
                /\ UNCHANGED manifest
           ELSE EvictNext(c)
    /\ UNCHANGED <<initialized, dirExists, files, manifestFile, maxCacheMb, now,
                   issued>>
    /\ PlayerIdle

\* evictOldVideos: RNFS.unlink(filePath) of the entry completes
EvictUnlinkDone(c) ==
    /\ calls[c].pc = "ev_unlink"
    /\ \E ok \in BOOLEAN :
        /\ Outcome(ok)
        /\ files' = IF ok
                    THEN [files EXCEPT
                            ![calls[c].sorted[calls[c].i].filename] = NoFile]
                    ELSE files
    /\ EvictNext(c)
    /\ UNCHANGED <<initialized, dirExists, manifestFile, maxCacheMb, now, issued>>
    /\ PlayerIdle

\* evictOldVideos: saveManifest completes; _download returns filePath
EvictSaved(c) ==
    /\ calls[c].pc = "ev_save"
    /\ \E ok \in BOOLEAN :
        /\ Outcome(ok)
        /\ WriteManifest(c, ok)
    /\ Commit(FinishDownload(K0, c, Path(calls[c].url)))
    /\ UNCHANGED <<manifest, initialized, maxCacheMb, now, issued>>
    /\ PlayerIdle

\* ------------------------------------------------------- cache: clearAll
\* clearAll: RNFS.exists(CACHE_DIR) completes
ClearExistsDone(c) ==
    /\ calls[c].pc = "clear_exists"
    /\ \E ok \in BOOLEAN :
        /\ Outcome(ok)
        /\ IF ok /\ dirExists
           THEN /\ Commit(WithCalls([calls EXCEPT ![c].pc = "clear_unlink"]))
                /\ UNCHANGED manifest
           ELSE \* no directory: reset the manifest; exists threw: catch
                /\ manifest' = IF ok THEN <<>> ELSE manifest
                /\ Commit(WithCalls(
                      Done(IF ok THEN DetachAll(calls) ELSE calls, c, Void)))
    /\ UNCHANGED <<initialized, dirExists, files, manifestFile, maxCacheMb, now,
                   issued>>
    /\ PlayerIdle

\* clearAll: RNFS.unlink(CACHE_DIR) completes
ClearUnlinkDone(c) ==
    /\ calls[c].pc = "clear_unlink"
    /\ \E ok \in BOOLEAN :
        /\ Outcome(ok)
        /\ IF ok /\ dirExists
           THEN /\ dirExists' = FALSE
                /\ files' = [f \in Filenames |-> NoFile]
                /\ manifestFile' = <<>>
                /\ Commit(WithCalls([calls EXCEPT ![c].pc = "clear_mkdir"]))
           ELSE /\ UNCHANGED <<dirExists, files, manifestFile>>
                /\ Commit(WithCalls(Done(calls, c, Void)))
    /\ UNCHANGED <<manifest, initialized, maxCacheMb, now, issued>>
    /\ PlayerIdle

\* clearAll: RNFS.mkdir(CACHE_DIR) completes; this.manifest = { entries: [] }
ClearMkdirDone(c) ==
    /\ calls[c].pc = "clear_mkdir"
    /\ \E ok \in BOOLEAN :
        /\ Outcome(ok)
        /\ dirExists' = (dirExists \/ ok)
        /\ manifest' = IF ok THEN <<>> ELSE manifest
        /\ Commit(WithCalls(
              Done(IF ok THEN DetachAll(calls) ELSE calls, c, Void)))
    /\ UNCHANGED <<initialized, files, manifestFile, maxCacheMb, now, issued>>
    /\ PlayerIdle

\* ---------------------------------------------------- cache: environment
\* the clock Date.now() reads moves on
Tick ==
    /\ now < MaxTime
    /\ now' = now + 1
    /\ UNCHANGED <<manifest, initialized, activeDownloads, dirExists, files,
                   manifestFile, maxCacheMb, calls, issued, faults,
                   downloadsStarted, lastReturned>>
    /\ PlayerIdle

\* a cached file is deleted out-of-band
DeleteOutOfBand(f) ==
    /\ files[f] # NoFile
    /\ files' = [files EXCEPT ![f] = NoFile]
    /\ calls' = [d \in Calls |-> [calls[d] EXCEPT
                                     !.after = FALSE,
                                     !.disturbed = InFlight(calls[d])]]
    /\ lastReturned' = NoReturn
    /\ UNCHANGED <<manifest, initialized, activeDownloads, dirExists,
                   manifestFile, maxCacheMb, now, issued, faults,
                   downloadsStarted>>
    /\ PlayerIdle

\* a native completion of call c
CallStep(c) ==
    \/ InitExistsDone(c) \/ InitMkdirDone(c)
    \/ LoadExistsDone(c) \/ LoadReadDone(c)
    \/ GetExistsDone(c) \/ GetMissSaved(c) \/ GetHitSaved(c)
    \/ DownloadDone(c) \/ FailExistsDone(c) \/ FailUnlinkDone(c)
    \/ StatDone(c) \/ DownloadSaved(c)
    \/ EvictExistsDone(c) \/ EvictUnlinkDone(c) \/ EvictSaved(c)
    \/ ClearExistsDone(c) \/ ClearUnlinkDone(c) \/ ClearMkdirDone(c)

CacheEnv == Tick \/ \E f \in Filenames : DeleteOutOfBand(f)

\* urls the overlapping callers ask for
SpecUrls == {UrlA, UrlB}

\* overlapping callers, all within one reading of the clock
CacheNext ==
    \/ \E c \in Calls : init(c, FALSE)
    \/ \E c \in Calls, u \in SpecUrls : getCachedPath(c, u, FALSE)
    \/ \E c \in Calls, u \in SpecUrls : prefetchVideo(c, u, FALSE)
    \/ \E c \in Calls : clearAll(c, FALSE)
    \/ \E c \in Calls : CallStep(c)
    \/ \E f \in Filenames : DeleteOutOfBand(f)

\* callers that await each call before the next
SeqNext ==
    \/ \E c \in Calls : init(c, TRUE)
    \/ \E c \in Calls, u \in Urls : getCachedPath(c, u, TRUE)
    \/ \E c \in Calls, u \in Urls : prefetchVideo(c, u, TRUE)
    \/ \E c \in Calls : clearAll(c, TRUE)
    \/ \E c \in Calls : CallStep(c)
    \/ CacheEnv

\* the cache after construction, on a device whose cache is empty: the cache
\* directory may exist, and with it an empty manifest file of an earlier run
CacheInit ==
    /\ manifest = <<>>
    /\ initialized = FALSE
    /\ activeDownloads = [u \in Urls |-> 0]
    /\ dirExists \in BOOLEAN
    /\ files = [f \in Filenames |-> NoFile]
    /\ manifestFile \in (IF dirExists THEN {<<>>, <<Stringify(<<>>)>>} ELSE {<<>>})
    /\ maxCacheMb \in MaxCacheMbChoices
    /\ now = 0
    /\ calls = [c \in Calls |-> IdleCall]
    /\ issued = 0
    /\ faults = 0
    /\ downloadsStarted = [u \in Urls |-> 0]
    /\ lastReturned = NoReturn

\* manifests an earlier run left behind: entries for UrlA and UrlB, within
\* the budget, accessed at times 0 or 1
WarmEntries ==
    {[url |-> u, filename |-> Filename[u], size |-> sz, accessedAt |-> t] :
        u \in {UrlA, UrlB}, sz \in FileSizes, t \in {0, 1}}

WarmManifests(mb) ==
    {m \in {<<>>} \cup {<<e>> : e \in WarmEntries}
            \cup {<<e1, e2>> : e1 \in WarmEntries, e2 \in WarmEntries} :
        /\ \A j, k \in 1..Len(m) : j # k => m[j].url # m[k].url
        /\ getCacheSize(m) <= mb * MB}

\* the cache after construction, on a device restarted with a cache written by
\* an earlier run: the manifest file and the files it lists
WarmInit ==
    /\ manifest = <<>>
    /\ initialized = FALSE
    /\ activeDownloads = [u \in Urls |-> 0]
    /\ dirExists = TRUE
    /\ maxCacheMb \in MaxCacheMbChoices
    /\ \E m \in WarmManifests(maxCacheMb) :
        /\ manifestFile = <<Stringify(m)>>
        /\ files = [f \in Filenames |->
                      IF \E k \in 1..Len(m) : m[k].filename = f
                      THEN m[CHOOSE k \in 1..Len(m) : m[k].filename = f].size
                      ELSE NoFile]
    /\ now = 1
    /\ calls = [c \in Calls |-> IdleCall]
    /\ issued = 0
    /\ faults = 0
    /\ downloadsStarted = [u \in Urls |-> 0]
    /\ lastReturned = NoReturn


\* ================================================================ player
\* PlayerScreen of src/unnamed/part_004 (the "resilient" version) and of
\* src/src/screens/PlayerScreen.tsx (the "simple" version).  Each action is
\* one callback of the component run to its end.  Date.now() is `clock`, in
\* ms.
DEBOUNCE_MS == 500
ERROR_ADVANCE_MS == 1000
MAX_SESSION_MS == 2 * 60 * 60 * 1000
MAX_LOOPS == 20
WATCHDOG_INTERVAL_MS == 5000

Variants == {"resilient", "simple"}

\* line 30 of either file
WATCHDOG_STUCK_THRESHOLD_MS(v) == IF v = "resilient" THEN 30000 ELSE 20000

MountTime == 2 * DEBOUNCE_MS   \* Date.now() when the screen mounts: far from 0
TimeStep == 250        \* ms between two readings of the clock
MaxSteps == 4          \* time steps in one run
MaxTimers == 2         \* error timers pending at once

\* props.playlist: the url of each item
Playlists == {<<UrlA>>, <<UrlA, UrlB>>, <<UrlA, UrlB, UrlC>>}

\* a remote url as a video source; Path(u) is the cached file, Null is null
Remote(u) == [tag |-> "url", file |-> u]

\* loadVideo: `cached || url`, cached being what prefetchVideo resolved to
loadVideo(cached, url) == IF cached # Null THEN cached ELSE Remote(url)

\* what prefetchVideo can settle to for url u
PrefetchOutcomes(u) == {Path(u), Null, Threw}

\* a loadVideo promise not yet settled, and the `.then` waiting on it
Load(target, u) == [target |-> target, url |-> u, isActive |-> TRUE]

\* the promises pending are a bag: two loadVideo calls for the same url and
\* target are two promises
PendingLoads == BagToSet(loads)
\* a bag of promises and one more
Started(bag, l) == bag (+) SetToBag({l})
\* a bag of promises after one of them has settled
Without(bag, l) == bag (-) SetToBag({l})
\* the cleanup of the standby effect (part_004 lines 82-84) has run for
\* every standby promise: `isActive = false`
CleanedUp(bag) ==
    LET off(l) == IF l.target = "standby" THEN [l EXCEPT !.isActive = FALSE]
                  ELSE l
        on(l) == [l EXCEPT !.isActive = TRUE]
        copies(l) == IF l \in DOMAIN bag THEN bag[l] ELSE 0
    IN [r \in {off(l) : l \in DOMAIN bag} |->
          copies(r) + (IF on(r) # r THEN copies(on(r)) ELSE 0)]

\* the record of a handleVideoEnd call: what it found, and the state before it
NoEvent ==
    [verdict |-> "none", gap |-> 0, index |-> 0, loopCount |-> 0,
     source |-> Null, progress |-> 0, refreshes |-> 0]

Event(verdict) ==
    [verdict |-> verdict, gap |-> clock - lastEndEventRef,
     index |-> currentIndexRef, loopCount |-> loopCountRef,
     source |-> activeSource, progress |-> lastProgressRef,
     refreshes |-> Len(refreshLog)]

CacheIdle == UNCHANGED cacheVars

AppIdle == UNCHANGED appVars

\* the loadVideo calls of the first render's effects: item 0 into the active
\* source and, for more than one item, item 1 into the standby
FirstLoads(pl) ==
    SetToBag({Load("active", pl[1])}
                \cup (IF Len(pl) <= 1 THEN {}
                      ELSE {Load("standby", pl[((0 + 1) % Len(pl)) + 1])}))

\* the app has not been in the background so far
NoResume == 0 - 1
\* the app is in the background, or back with no 'active' event so far
Away == 0 - 2

\* the state after the first render and its effects (part_004 lines 38-85,
\* 152-167; PlayerScreen.tsx lines 38-68, 132-147), the screen mounting at
\* MountTime
PlayerInit ==
    /\ variant \in Variants
    /\ playlist \in Playlists
    /\ currentIndex = 0
    /\ activeSource = Null
    /\ currentIndexRef = 0
    /\ standbySourceRef = Null
    /\ activeKey = 0
    /\ clock = MountTime
    /\ sessionStartRef = clock
    /\ lastProgressRef = clock
    /\ lastEndEventRef = 0
    /\ loopCountRef = 0
    /\ loads = FirstLoads(playlist)
    /\ errorTimers = <<>>
    /\ errorSeen = <<>>
    /\ nextTick = clock + WATCHDOG_INTERVAL_MS
    /\ mountedKey = playerKey
    /\ refreshLog = <<>>
    /\ watchdogAt = <<>>
    /\ resumedAt = NoResume
    /\ lastHandled = NoEvent
    /\ endsAccepted = 0

\* no PlayerScreen is mounted; App imports the one of screens/PlayerScreen
PlayerOff ==
    /\ variant = "simple"
    /\ playlist = <<>>
    /\ currentIndex = 0
    /\ activeSource = Null
    /\ currentIndexRef = 0
    /\ standbySourceRef = Null
    /\ activeKey = 0
    /\ clock = 0
    /\ sessionStartRef = 0
    /\ lastProgressRef = 0
    /\ lastEndEventRef = 0
    /\ loopCountRef = 0
    /\ loads = EmptyBag
    /\ errorTimers = <<>>
    /\ errorSeen = <<>>
    /\ nextTick = 0
    /\ mountedKey = 0
    /\ refreshLog = <<>>
    /\ watchdogAt = <<>>
    /\ resumedAt = NoResume
    /\ lastHandled = NoEvent
    /\ endsAccepted = 0

\* the window taken one ms too long
DebouncedLate(nowMs, last) == nowMs - last <= DEBOUNCE_MS
\* line 102: the call comes within the debounce window of the last accepted one
Debounced(nowMs, last) == nowMs - last < DEBOUNCE_MS

\* line 106
NextIndex(current, n) == (current + 1) % n

\* the wrap detected on the index after the advance
IsLastVideoEarly(current, n) == current + 1 = n - 1
\* line 115
IsLastVideo(current, n) == current = n - 1

\* the reason chosen by the loop count first
ReasonByLoops(sessionDuration, loops) ==
    IF loops >= MAX_LOOPS THEN "Periodic"
    ELSE IF sessionDuration >= MAX_SESSION_MS THEN "2hr Session" ELSE "Periodic"
\* part_004 lines 125-126, PlayerScreen.tsx lines 103-104
Reason(sessionDuration, loops) ==
    IF sessionDuration >= MAX_SESSION_MS THEN "2hr Session" ELSE "Periodic"

\* ----------------------------------------------------- DiscordLogger
\* sendDiscordLog of src/src/services/DiscordLogger.ts, lines 9-74
MIN_INTERVAL_MS == 5000

\* `let lastSendTime = 0` (line 10) is a Date.now() reading of 1970: at least
\* MIN_INTERVAL_MS before any reading of the clock of a run
LongAgo == 0 - MIN_INTERVAL_MS

NoLog == [called |-> FALSE, gap |-> 0, outcome |-> "none", window |-> 0,
          emitted |-> 0, droppedSince |-> FALSE]

\* the logger of a process that has not logged yet
LogStart(url) ==
    /\ webhook = url
    /\ lastSendTime = LongAgo
    /\ emissions = <<>>
    /\ lastLog = NoLog

\* a window of half the time
ThrottledShort(nowMs, last) == nowMs - last < MIN_INTERVAL_MS \div 2
\* line 52: `now - lastSendTime < MIN_INTERVAL_MS`
Throttled(nowMs, last) == nowMs - last < MIN_INTERVAL_MS

\* the state of the logger, and the record of its last call
LogState == [last |-> lastSendTime, sent |-> emissions, log |-> lastLog]

\* what a call at logger state s found: the time since lastSendTime,
\* lastSendTime and the number of POSTs before it, and whether a call was
\* dropped since the last POST
LogCall(s, outcome) ==
    [called |-> TRUE, gap |-> clock - s.last, outcome |-> outcome,
     window |-> s.last, emitted |-> Len(s.sent),
     droppedSince |-> s.log.droppedSince]

\* sendDiscordLog(title, description, color), lines 41-74, called at logger
\* state s: without a webhook url it returns; within the window it returns;
\* otherwise it moves the window and POSTs, and a failure of the POST is
\* swallowed
Logged(s) ==
    LET nowMs == clock IN
    IF ~webhook
    THEN [s EXCEPT !.log = LogCall(s, "off")]
    ELSE IF Throttled(nowMs, s.last)
    THEN [s EXCEPT !.log = [LogCall(s, "dropped") EXCEPT !.droppedSince = TRUE]]
    ELSE [last |-> nowMs, sent |-> Append(s.sent, nowMs),
          log |-> LogCall(s, "sent")]

\* the logger is left in state s
SetLog(s) ==
    /\ lastSendTime' = s.last
    /\ emissions' = s.sent
    /\ lastLog' = s.log
    /\ UNCHANGED webhook

\* one call of sendDiscordLog
sendDiscordLog == SetLog(Logged(LogState))

\* `reason.includes(word)`, App.tsx lines 258 and 265, for the reasons the
\* screens pass: 'Playback Stuck (Watchdog)' and 'Memory Cleanup (<reason>)'
Includes(reason, word) ==
    \E i \in 1..Len(reason) :
        \/ reason[i] = word
        \/ reason[i] = "Playback Stuck (Watchdog)" /\ word = "Watchdog"

\* the sendDiscordLog calls of handleRefresh, lines 258-271, from logger
\* state s
RefreshLogged(reason, s) ==
    LET w == IF Includes(reason, "Watchdog") THEN Logged(s) ELSE s IN
    IF Includes(reason, "2hr Session") THEN Logged(w) ELSE w

\* handleRefresh of App, lines 256-277: the prop onRefresh of the screen,
\* called with the logger in state s
handleRefresh(reason, s) ==
    /\ SetLog(RefreshLogged(reason, s))
    /\ playerKey' = playerKey + 1

\* the screen calls onRefresh(reason), the logger being in state s
onRefresh(reason, s) ==
    /\ refreshLog' = Append(refreshLog, reason)
    /\ handleRefresh(reason, s)

NoRefresh == UNCHANGED <<refreshLog, playerKey, logVars>>

\* the variables of App that the screen's callbacks cannot reach
appVarsButKey == <<appState, pairingCode, appPlaylist, playlistRef,
                   orientation, deviceInfo, asyncStorage, backupFile,
                   heartbeat, handlers, delivered, lastMessage, socketVars,
                   orphan, resets>>

\* the remote url whatever the standby holds
NextSourceRemote(standby, url) == Remote(url)
\* part_004 lines 139-145: the standby when set, else the url of the item
NextSource(standby, url) == IF standby # Null THEN standby ELSE Remote(url)

\* handleVideoEnd of part_004, lines 96-149
handleVideoEnd ==
    LET pl == playlist
        nowMs == clock
        current == currentIndexRef
        nextIdx == NextIndex(current, Len(pl))
        isLastVideo == IsLastVideo(current, Len(pl))
        sessionDuration == clock - sessionStartRef
        loops == IF isLastVideo THEN loopCountRef + 1 ELSE loopCountRef
        shouldRefresh ==
            isLastVideo /\ (sessionDuration >= MAX_SESSION_MS \/ loops >= MAX_LOOPS)
        reason == Reason(sessionDuration, loops)
        standby == standbySourceRef
    IN
    IF Len(pl) = 0 \/ Debounced(nowMs, lastEndEventRef)
    THEN /\ lastHandled' = Event("ignored")
         /\ NoRefresh
         /\ UNCHANGED <<lastEndEventRef, currentIndexRef, lastProgressRef,
                        loopCountRef, activeSource, endsAccepted>>
    ELSE /\ lastHandled' = Event("accepted")
         /\ endsAccepted' = endsAccepted + 1
         /\ lastEndEventRef' = nowMs
         /\ currentIndexRef' = nextIdx
         /\ lastProgressRef' = clock
         /\ loopCountRef' = loops
         /\ IF shouldRefresh
            THEN /\ onRefresh(<<"Memory Cleanup", reason>>, Logged(LogState))
                 /\ UNCHANGED activeSource
            ELSE /\ activeSource' = NextSource(standby, pl[nextIdx + 1])
                 /\ NoRefresh

\* handleVideoEnd of PlayerScreen.tsx, lines 78-129, as created by the render
\* in which standbySource had the value given
handleVideoEndSimple(standbySource) ==
    LET pl == playlist
        current == currentIndexRef
        nextIdx == NextIndex(current, Len(pl))
        followingIdx == NextIndex(nextIdx, Len(pl))
        loops == loopCountRef + 1
        isLastVideo == IsLastVideo(current, Len(pl))
        sessionDuration == clock - sessionStartRef
        shouldRefresh ==
            isLastVideo /\ (sessionDuration >= MAX_SESSION_MS \/ loops >= MAX_LOOPS)
        reason == Reason(sessionDuration, loops)
    IN
    IF Len(pl) = 0
    THEN /\ lastHandled' = Event("ignored")
         /\ NoRefresh
         /\ UNCHANGED <<currentIndexRef, lastProgressRef, loopCountRef,
                        activeSource, activeKey, loads, endsAccepted>>
    ELSE /\ lastHandled' = Event("accepted")
         /\ endsAccepted' = endsAccepted + 1
         /\ currentIndexRef' = nextIdx
         /\ lastProgressRef' = clock
         /\ loopCountRef' = loops
         /\ IF shouldRefresh
            THEN /\ onRefresh(<<"Memory Cleanup", reason>>, Logged(LogState))
                 /\ UNCHANGED <<activeSource, activeKey, loads>>
            ELSE /\ activeSource' = IF standbySource # Null THEN standbySource
                                    ELSE activeSource
                 /\ activeKey' = IF Len(pl) = 1 THEN activeKey + 1 ELSE activeKey
                 /\ loads' = Started(loads, Load("standby", pl[followingIdx + 1]))
                 /\ NoRefresh

\* the handleVideoEnd of the mounted version, from the render that saw
\* standbySource
EndHandler(standbySource) ==
    IF variant = "resilient"
    THEN handleVideoEnd /\ UNCHANGED <<activeKey, loads>>
    ELSE handleVideoEndSimple(standbySource) /\ UNCHANGED lastEndEventRef

\* <Video onEnd>, part_004 lines 262-267, PlayerScreen.tsx lines 232-237; a
\* Video is rendered once activeSource is set
OnEnd ==
    /\ activeSource # Null
    /\ Len(playlist) > 1
    /\ EndHandler(standbySourceRef)
    /\ UNCHANGED <<variant, playlist, currentIndex, standbySourceRef,
                   sessionStartRef, clock, errorTimers, errorSeen, nextTick,
                   mountedKey, watchdogAt, resumedAt>>
    /\ UNCHANGED appVarsButKey
    /\ CacheIdle

\* what the closure of an error timer holds: in PlayerScreen.tsx the
\* standbySource of the render that created handleVideoEnd (line 129), in
\* part_004 nothing but refs (line 149); with it, the number of calls that
\* had been accepted when the error came
Seen == [standby |-> IF variant = "simple" THEN standbySourceRef ELSE Null,
         ends |-> endsAccepted]

\* a timer of no delay
TimerAtOnce(nowMs) == nowMs
\* when the timer of handleError is due, part_004 lines 191-193
TimerAt(nowMs) == nowMs + ERROR_ADVANCE_MS

\* handleError, part_004 lines 185-196, PlayerScreen.tsx lines 165-176: the
\* timer is set
OnError ==
    /\ activeSource # Null
    /\ Len(errorTimers) < MaxTimers
    /\ errorTimers' = Append(errorTimers, TimerAt(clock))
    /\ errorSeen' = Append(errorSeen, Seen)
    /\ lastHandled' = NoEvent
    /\ UNCHANGED <<variant, playlist, currentIndex, activeSource,
                   currentIndexRef, standbySourceRef, activeKey,
                   sessionStartRef, lastProgressRef, lastEndEventRef,
                   loopCountRef, clock, loads, nextTick, mountedKey, watchdogAt,
                   resumedAt,
                   refreshLog, endsAccepted>>
    /\ sendDiscordLog
    /\ UNCHANGED playerKey
    /\ UNCHANGED appVarsButKey
    /\ CacheIdle

\* the timer of handleError fires, part_004 lines 191-193
ErrorTimerFire ==
    /\ errorTimers # <<>>
    /\ Head(errorTimers) <= clock
    /\ errorTimers' = Tail(errorTimers)
    /\ errorSeen' = Tail(errorSeen)
    /\ EndHandler(Head(errorSeen).standby)
    /\ UNCHANGED <<variant, playlist, currentIndex, standbySourceRef,
                   sessionStartRef, clock, nextTick, mountedKey, watchdogAt,
                   resumedAt>>
    /\ UNCHANGED appVarsButKey
    /\ CacheIdle

\* a PlayerScreen is mounted: its interval and its AppState listener are set
\* by its effects and removed by their cleanups (part_004 lines 166 and 176,
\* PlayerScreen.tsx line 146)
Mounted == playlist # <<>>

\* lastProgressRef.current = v, in a callback; resumed is resumedAt when the
\* callback has run
MarkProgressAt(v, resumed) ==
    /\ lastProgressRef' = v
    /\ resumedAt' = resumed
    /\ lastHandled' = NoEvent
    /\ UNCHANGED <<variant, playlist, currentIndex, activeSource,
                   currentIndexRef, standbySourceRef, activeKey,
                   sessionStartRef, lastEndEventRef, loopCountRef, clock,
                   loads, errorTimers, errorSeen, nextTick, mountedKey,
                   watchdogAt, refreshLog, endsAccepted>>
    /\ AppIdle
    /\ CacheIdle

\* lastProgressRef.current = Date.now()
MarkProgress == MarkProgressAt(clock, resumedAt)

\* handleProgress, lines 180-182
handleProgress == activeSource # Null /\ MarkProgress

\* <Video onLoad>, lines 269-271
OnLoad == activeSource # Null /\ MarkProgress

\* what the listener writes to lastProgressRef, line 173
ActiveMark(nowMs, last) == nowMs

\* the AppState listener with state 'active', lines 171-175
AppActive ==
    Mounted /\
    MarkProgressAt(ActiveMark(clock, lastProgressRef),
                   IF resumedAt = Away THEN clock ELSE resumedAt)

\* the threshold taken as reached at the threshold itself
StuckAtThreshold(stuckDuration, v) ==
    stuckDuration >= WATCHDOG_STUCK_THRESHOLD_MS(v)
\* part_004 line 155, PlayerScreen.tsx line 135
Stuck(stuckDuration, v) == stuckDuration > WATCHDOG_STUCK_THRESHOLD_MS(v)

\* the watchdog's setInterval callback, part_004 lines 153-164,
\* PlayerScreen.tsx lines 133-144; the timer is then due one interval later
WatchdogTick ==
    LET stuckDuration == clock - lastProgressRef IN
    /\ Mounted
    /\ nextTick <= clock
    /\ nextTick' = clock + WATCHDOG_INTERVAL_MS
    /\ IF Stuck(stuckDuration, variant)
       THEN /\ onRefresh(<<"Playback Stuck (Watchdog)">>, Logged(LogState))
            /\ lastProgressRef' = clock
            /\ watchdogAt' = Append(watchdogAt, clock)
       ELSE /\ NoRefresh
            /\ UNCHANGED <<lastProgressRef, watchdogAt>>
    /\ lastHandled' = NoEvent
    /\ UNCHANGED <<variant, playlist, currentIndex, activeSource,
                   currentIndexRef, standbySourceRef, activeKey,
                   sessionStartRef, lastEndEventRef, loopCountRef, clock,
                   loads, errorTimers, errorSeen, mountedKey, resumedAt,
                   endsAccepted>>
    /\ UNCHANGED appVarsButKey
    /\ CacheIdle

\* React renders the new currentIndex; in part_004 it then runs the standby
\* effect, lines 67-85: the cleanup of the last run, then the effect
Render ==
    /\ currentIndex # currentIndexRef
    /\ currentIndex' = currentIndexRef
    /\ IF Len(playlist) <= 1 \/ variant = "simple"
       THEN UNCHANGED <<standbySourceRef, loads>>
       ELSE LET nextIdx == (currentIndex' + 1) % Len(playlist) IN
            /\ standbySourceRef' = Null
            /\ loads' = Started(CleanedUp(loads),
                                Load("standby", playlist[nextIdx + 1]))
    /\ lastHandled' = NoEvent
    /\ UNCHANGED <<variant, playlist, activeSource, currentIndexRef, activeKey,
                   sessionStartRef, lastProgressRef, lastEndEventRef,
                   loopCountRef, clock, errorTimers, errorSeen, nextTick,
                   mountedKey, watchdogAt, resumedAt, refreshLog, endsAccepted>>
    /\ AppIdle
    /\ CacheIdle

\* the `.then` writing the standby whether or not the effect was cleaned up
SettleAlways(l, path, standby) == path
\* the `.then` of the standby effect, part_004 lines 76-80: the standby it
\* leaves
Settle(l, path, standby) == IF l.isActive THEN path ELSE standby

\* a loadVideo promise settles and its `.then` runs (part_004 lines 61-63 and
\* 76-80; PlayerScreen.tsx lines 58-60, 64-66, 126-128); when prefetchVideo
\* rejects, so does loadVideo, and no `.then` runs
LoadDone(l, cached) ==
    /\ l \in PendingLoads
    /\ loads' = Without(loads, l)
    /\ LET path == loadVideo(cached, l.url) IN
       IF cached = Threw
       THEN UNCHANGED <<activeSource, standbySourceRef>>
       ELSE IF l.target = "active"
       THEN activeSource' = path /\ UNCHANGED standbySourceRef
       ELSE /\ standbySourceRef' = Settle(l, path, standbySourceRef)
            /\ UNCHANGED activeSource
    /\ lastHandled' = NoEvent
    /\ UNCHANGED <<variant, playlist, currentIndex, currentIndexRef, activeKey,
                   sessionStartRef, lastProgressRef, lastEndEventRef,
                   loopCountRef, clock, errorTimers, errorSeen, nextTick,
                   mountedKey, watchdogAt, resumedAt, refreshLog, endsAccepted>>
    /\ AppIdle
    /\ CacheIdle

\* time passes: d ms, while the clock is before the horizon of the run
Pass(d, horizon, resumed) ==
    /\ clock < horizon
    /\ clock' = clock + d
    /\ lastHandled' = NoEvent
    /\ resumedAt' = resumed
    /\ UNCHANGED <<variant, playlist, currentIndex, activeSource,
                   currentIndexRef, standbySourceRef, activeKey,
                   sessionStartRef, lastProgressRef, lastEndEventRef,
                   loopCountRef, loads, errorTimers, errorSeen, nextTick,
                   mountedKey, watchdogAt, refreshLog, endsAccepted>>
    /\ AppIdle
    /\ CacheIdle

\* Date.now() moves on by d ms
Advance(d, horizon) == Pass(d, horizon, resumedAt)

\* time passes
Elapse == Advance(TimeStep, MountTime + MaxSteps * TimeStep)

PlayerNext ==
    \/ OnEnd
    \/ OnError
    \/ ErrorTimerFire
    \/ handleProgress
    \/ OnLoad
    \/ AppActive
    \/ Render
    \/ \E l \in PendingLoads : \E cached \in PrefetchOutcomes(l.url) : LoadDone(l, cached)
    \/ Elapse

\* =================================================================== app
\* App of src/src/App.tsx: handleMessage, one action per message type, and
\* one per native operation an asynchronous handler awaits.
MaxMessages == 3       \* messages delivered in one run
MaxHandlers == 2       \* handlers suspended at an await at once

\* a field of a payload: <<>> is undefined, <<s>> is the string s
Undefined == <<>>
Str(x) == <<x>>
Truthy(v) == v # Undefined /\ v # Str("")

\* `v || ''`
OrEmpty(v) == IF Truthy(v) THEN v ELSE Str("")

\* the url '' of a payload
EmptyUrl == Str(<<>>)
\* `if (message.payload?.url)`: the url is neither undefined nor ''
TruthyUrl(v) == v # Undefined /\ v # EmptyUrl

\* payload.playlist: absent, an array of items, or a value that is no
\* array: a string, given by its characters, or the object {}
NoList == [kind |-> "undefined", items |-> <<>>]
NotList == [kind |-> "object", items |-> <<>>]
Text(s) == [kind |-> "string", items |-> s]
List(pl) == [kind |-> "array", items |-> pl]

\* an array of any length
IsArray(list) == list.kind = "array"
\* `if (message.payload?.playlist)`: every array and object is truthy, the
\* string '' is not
TruthyList(list) ==
    \/ list.kind \in {"array", "object"}
    \/ list.kind = "string" /\ list.items # <<>>
\* `newPlaylist.length > 0`: an object has no length, and undefined > 0 is
\* false
HasLength(list) == list.kind \in {"array", "string"} /\ Len(list.items) > 0

\* a string held where a list of VideoSource is expected: its items are its
\* characters, which have no url; -1 is no char code
Chars(s) == [i \in 1..Len(s) |-> <<-1, s[i]>>]
IsChars(pl) == pl # <<>> /\ pl[1] # <<>> /\ pl[1][1] = -1
\* the value setPlaylist(newPlaylist) stores
ListValue(list) == IF list.kind = "string" THEN Chars(list.items) ELSE list.items

NoPayload ==
    [present |-> FALSE, code |-> Undefined, id |-> Undefined,
     name |-> Undefined, token |-> Undefined, url |-> Undefined,
     orientation |-> Undefined, playlist |-> NoList]

Payload == [NoPayload EXCEPT !.present = TRUE]

\* the identities a server hands out
Identity(n) ==
    [id |-> Str("id" \o n), code |-> Str("code" \o n),
     name |-> Str("name" \o n), token |-> Str("token" \o n)]

Identities ==
    {Identity("1"), Identity("2"), [Identity("1") EXCEPT !.name = Undefined]}

ConfigKeys == <<"id", "code", "name", "token">>

\* JSON.stringify(config): the defined fields, in the order written
RECURSIVE StringifyFrom(_, _)
StringifyFrom(config, k) ==
    IF k > Len(ConfigKeys) THEN <<>>
    ELSE LET key == ConfigKeys[k] IN
         (IF config[key] = Undefined THEN <<>>
          ELSE <<<<key, config[key][1]>>>>)
            \o StringifyFrom(config, k + 1)

StringifyConfig(config) == StringifyFrom(config, 1)

\* JSON.parse(json): a field the text does not have is undefined
ParseConfig(json) ==
    [key \in {ConfigKeys[k] : k \in 1..Len(ConfigKeys)} |->
        IF \E j \in 1..Len(json) : json[j][1] = key
        THEN Str(json[CHOOSE j \in 1..Len(json) : json[j][1] = key][2])
        ELSE Undefined]

\* the config without its token
ConfigNoToken(p) == [id |-> p.id, code |-> p.code, name |-> p.name, token |-> Undefined]
\* the config `{ id, code, name, token }` taken from a payload, lines 121-126
ConfigOf(p) == [id |-> p.id, code |-> p.code, name |-> p.name, token |-> p.token]

WithIdentity(p, ident) ==
    [p EXCEPT !.id = ident.id, !.code = ident.code, !.name = ident.name,
              !.token = ident.token]

\* the lists a message can carry
Lists == {NoList, NotList, List(<<>>)} \cup {List(pl) : pl \in Playlists}

Orientations == {Undefined, Str("90")}

\* the messages of the protocol, by type
Messages(type) ==
    LET msg(p) == [type |-> type, payload |-> p] IN
    CASE type = "register" ->
            {msg(NoPayload), msg(Payload), msg([Payload EXCEPT !.code = Str("")]),
             msg([Payload EXCEPT !.code = Str("4711")])}
      [] type = "paired" ->
            {msg(NoPayload)} \cup {msg(WithIdentity(Payload, i)) : i \in Identities}
      [] type = "auth" ->
            {msg(NoPayload)}
              \cup {msg([WithIdentity(Payload, Identity("1")) EXCEPT
                            !.orientation = o, !.playlist = l]) :
                      o \in Orientations, l \in Lists}
      [] type = "play" ->
            {msg(NoPayload), msg(Payload)}
              \cup {msg([Payload EXCEPT !.url = Str(u)]) :
                      u \in {<<>>, UrlA, UrlB}}
      [] type = "play_list" ->
            {msg(NoPayload)}
              \cup {msg([Payload EXCEPT !.playlist = l]) :
                      l \in Lists \cup {Text(<<>>)}}
      [] type = "sync_state" ->
            {msg(NoPayload)}
              \cup {msg([Payload EXCEPT !.orientation = o, !.playlist = l]) :
                      o \in Orientations,
                      l \in Lists \cup {Text(<<>>), Text(<<97>>)}}
      [] OTHER -> {msg(NoPayload), msg(Payload)}

\* what a handler found when it started
Before ==
    [appState |-> appState, appPlaylist |-> appPlaylist,
     playlistRef |-> playlistRef, playerKey |-> playerKey,
     pairingCode |-> pairingCode]

NoMessage ==
    [type |-> "none", payload |-> NoPayload, phase |-> "none",
     before |-> [appState |-> "loading", appPlaylist |-> <<>>,
                 playlistRef |-> <<>>, playerKey |-> 0,
                 pairingCode |-> Str("")],
     okItem |-> FALSE, okFile |-> FALSE, alone |-> FALSE]

\* a handler has run from its call to its end without awaiting
Handled(m) ==
    [NoMessage EXCEPT !.type = m.type, !.payload = m.payload,
                      !.phase = "done", !.before = Before, !.alone = TRUE]

NoDevice == [id |-> Str(""), code |-> Str(""), name |-> Str("")]

\* scheduleDailyReset, lines 80-90: the ms from a time of day, in ms since
\* local midnight, to the next 3:00 AM, on a day of 24 hours
RESET_HOUR == 3
HourMs == 60 * 60 * 1000
DayMs == 24 * HourMs
Noon == 12 * HourMs
MsUntilReset(timeOfDay) ==
    LET target == RESET_HOUR * HourMs IN
    IF timeOfDay > target THEN target + DayMs - timeOfDay
    ELSE target - timeOfDay

\* the delay of the reload timers, lines 101 and 241
RELOAD_DELAY == 1000

\* the timer of scheduleDailyReset due at a time, no reload timer pending
\* and no call of DevSettings.reload made
NoResets(at) == [daily |-> <<at>>, timers |-> <<>>, reloads |-> 0]

\* no unmounted screen has a timer pending
NoOrphan == [timers |-> <<>>, index |-> 0, loops |-> 0, sessionStart |-> 0,
             lastEnd |-> 0, len |-> 0]

\* `let savedData = {}`, line 49
NoConfig == [id |-> Undefined, code |-> Undefined, name |-> Undefined,
             token |-> Undefined]

\* a connect() call at its first await, lines 44-52, and its caller
Connecting(caller) ==
    [pc |-> "get_item", savedData |-> NoConfig, caller |-> caller]

\* App after its first render and effects, lines 27-67, on a device whose
\* stores hold what an earlier run left: connect() has been called
\* App after its first render and effects, at a time in ms since local
\* midnight
AppMountedAt(item, file, timeOfDay) ==
    /\ appState = "loading"
    /\ pairingCode = Str("")
    /\ appPlaylist = <<>>
    /\ playlistRef = <<>>
    /\ orientation = Str("0")
    /\ deviceInfo = NoDevice
    /\ playerKey = 0
    /\ asyncStorage = item
    /\ backupFile = file
    /\ heartbeat = FALSE
    /\ handlers = <<>>
    /\ delivered = 0
    /\ lastMessage = NoMessage
    /\ sockets = <<>>
    /\ socketRef = 0
    /\ connects = <<Connecting("mount")>>
    /\ reconnectTimeout = FALSE
    /\ orphan = NoOrphan
    /\ resets = NoResets(MsUntilReset(timeOfDay))

\* App mounted at noon
AppMounted(item, file) == AppMountedAt(item, file, Noon)

\* the same in a build with a webhook url, before the first log
AppStart(item, file) == AppMounted(item, file) /\ LogStart(TRUE)

\* App after its first render and effects on a device never paired
AppInit == AppStart(<<>>, <<>>)

\* `list.map((v) => v.url).join('|')`, lines 207-208: '|' is char code 124
RECURSIVE JoinUrls(_)
JoinUrls(pl) ==
    IF pl = <<>> THEN <<>>
    ELSE IF Len(pl) = 1 THEN pl[1]
    ELSE pl[1] \o <<124>> \o JoinUrls(Tail(pl))

\* the handlers that were suspended are no longer alone
Joined(hs) == [k \in 1..Len(hs) |-> [hs[k] EXCEPT !.alone = FALSE]]

\* the playlist set and the state playing, the key kept
AssignSameKey(pl) ==
    /\ appPlaylist' = pl
    /\ appState' = "playing"
    /\ UNCHANGED playerKey
\* setPlaylist(list); setPlayerKey((prev) => prev + 1); setAppState('playing')
Assign(pl) ==
    /\ appPlaylist' = pl
    /\ playerKey' = playerKey + 1
    /\ appState' = "playing"

\* the playlist emptied, the state kept
ClearPlaylistOnly ==
    /\ appPlaylist' = <<>>
    /\ UNCHANGED <<appState, playerKey>>
\* the state set to sleeping, the playlist kept
ClearStateOnly ==
    /\ appState' = "sleeping"
    /\ UNCHANGED <<appPlaylist, playerKey>>
\* setPlaylist([]); setAppState('sleeping')
Clear ==
    /\ appPlaylist' = <<>>
    /\ appState' = "sleeping"
    /\ UNCHANGED playerKey

\* the pairing screen shown whatever the payload holds
registerAnyCode(m) ==
    /\ pairingCode' = OrEmpty(m.payload.code)
    /\ appState' = "pairing"
    /\ UNCHANGED <<appPlaylist, orientation, deviceInfo, playerKey, heartbeat,
                   handlers>>

\* case 'register', lines 111-116
register(m) ==
    /\ IF Truthy(m.payload.code)
       THEN /\ pairingCode' = m.payload.code
            /\ appState' = "pairing"
       ELSE UNCHANGED <<pairingCode, appState>>
    /\ UNCHANGED <<appPlaylist, orientation, deviceInfo, playerKey, heartbeat,
                   handlers>>

\* setDeviceId, setDeviceCode, setDeviceName with `|| ''`
DeviceOf(p) ==
    [id |-> OrEmpty(p.id), code |-> OrEmpty(p.code), name |-> OrEmpty(p.name)]

\* case 'paired', lines 119-130, to its await of saveCredentials, whose first
\* lines (183-186) stringify the config and call AsyncStorage.setItem
paired(m) ==
    /\ IF m.payload.present
       THEN /\ Len(handlers) < MaxHandlers
            /\ deviceInfo' = DeviceOf(m.payload)
            /\ handlers' = Append(Joined(handlers),
                  [type |-> "paired", pc |-> "set_item",
                   json |-> StringifyConfig(ConfigOf(m.payload)),
                   payload |-> m.payload, before |-> Before,
                   okItem |-> FALSE, alone |-> handlers = <<>>])
       ELSE UNCHANGED <<deviceInfo, handlers>>
    /\ UNCHANGED <<pairingCode, appState, appPlaylist, orientation, playerKey,
                   heartbeat>>

\* line 148: `p.playlist && Array.isArray(p.playlist) && p.playlist.length > 0`
HasItems(list) == list.kind = "array" /\ Len(list.items) > 0

\* case 'auth', lines 133-157
auth(m) ==
    LET p == m.payload IN
    /\ IF p.present
       THEN /\ deviceInfo' = DeviceOf(p)
            /\ orientation' = IF Truthy(p.orientation) THEN p.orientation
                               ELSE Str("0")
            /\ heartbeat' = TRUE
            /\ IF HasItems(p.playlist)
               THEN Assign(p.playlist.items)
               ELSE /\ appState' = "sleeping"
                    /\ UNCHANGED <<appPlaylist, playerKey>>
       ELSE UNCHANGED <<deviceInfo, orientation, heartbeat, appState,
                        appPlaylist, playerKey>>
    /\ UNCHANGED <<pairingCode, handlers>>

\* case 'play', lines 160-167
play(m) ==
    /\ IF TruthyUrl(m.payload.url)
       THEN Assign(<<m.payload.url[1]>>)
       ELSE UNCHANGED <<appPlaylist, playerKey, appState>>
    /\ UNCHANGED <<pairingCode, orientation, deviceInfo, heartbeat, handlers>>

\* case 'stop' and case 'hibernate', lines 170-179
stop(m) ==
    /\ Clear
    /\ UNCHANGED <<pairingCode, orientation, deviceInfo, heartbeat, handlers>>

\* case 'play_list', lines 182-195
play_list(m) ==
    LET newPlaylist == m.payload.playlist IN
    /\ IF TruthyList(newPlaylist)
       THEN IF HasLength(newPlaylist)
            THEN Assign(ListValue(newPlaylist))
            ELSE Clear
       ELSE UNCHANGED <<appPlaylist, playerKey, appState>>
    /\ UNCHANGED <<pairingCode, orientation, deviceInfo, heartbeat, handlers>>

\* case 'sync_state', lines 198-221
sync_state(m) ==
    LET p == m.payload
        newPlaylist == p.playlist
        \* `.map` of a value that is no array is no function: the TypeError
        \* ends the case at lines 207-208 and the catch of line 248 logs it
        thrown == IsChars(playlistRef) \/ ~IsArray(newPlaylist)
        currentUrls == JoinUrls(playlistRef)
        newUrls == JoinUrls(newPlaylist.items)
    IN
    /\ orientation' = IF Truthy(p.orientation) THEN p.orientation
                       ELSE orientation
    /\ IF TruthyList(newPlaylist) /\ ~thrown /\ currentUrls # newUrls
       THEN IF HasLength(newPlaylist)
            THEN Assign(ListValue(newPlaylist))
            ELSE Clear
       ELSE UNCHANGED <<appPlaylist, playerKey, appState>>
    /\ UNCHANGED <<pairingCode, deviceInfo, heartbeat, handlers>>

\* case 'reset', lines 232-241: the log is sent and the timer of the reload
\* is set
reset(m) ==
    /\ sendDiscordLog
    /\ resets' = [resets EXCEPT !.timers = Append(@, clock + RELOAD_DELAY)]
    /\ UNCHANGED <<pairingCode, appState, appPlaylist, orientation, deviceInfo,
                   playerKey, heartbeat, handlers>>

\* case 'schedule_update', lines 245-246, and the types with no case
ignore(m) ==
    UNCHANGED <<pairingCode, appState, appPlaylist, orientation, deviceInfo,
                playerKey, heartbeat, handlers>>

\* case 'unpair', line 225, to the first await of clearCredentials: the
\* call of AsyncStorage.removeItem, line 219
unpair(m) ==
    /\ Len(handlers) < MaxHandlers
    /\ handlers' = Append(Joined(handlers),
          [type |-> "unpair", pc |-> "remove_item", json |-> <<>>,
           payload |-> m.payload, before |-> Before, okItem |-> FALSE,
           alone |-> handlers = <<>>])
    /\ UNCHANGED <<pairingCode, appState, appPlaylist, orientation, deviceInfo,
                   playerKey, heartbeat>>

\* the types handled here whose handler has no await before its end
SyncTypes == {"register", "auth", "play", "stop", "hibernate", "play_list",
              "sync_state", "schedule_update", "content"}

\* handleMessage(message), lines 106-253, to its end or to its first await
handleMessage(m) ==
    /\ delivered < MaxMessages
    /\ delivered' = delivered + 1
    /\ CASE m.type = "register" -> register(m)
         [] m.type = "paired" -> paired(m)
         [] m.type = "auth" -> auth(m)
         [] m.type = "play" -> play(m)
         [] m.type \in {"stop", "hibernate"} -> stop(m)
         [] m.type = "play_list" -> play_list(m)
         [] m.type = "sync_state" -> sync_state(m)
         [] m.type = "unpair" -> unpair(m)
         [] m.type = "reset" -> reset(m)
         [] OTHER -> ignore(m)
    /\ lastMessage' = IF \/ m.type = "paired" /\ m.payload.present
                         \/ m.type = "unpair"
                      THEN [Handled(m) EXCEPT !.phase = "awaiting"]
                      ELSE Handled(m)
    /\ IF m.type = "reset" THEN TRUE ELSE UNCHANGED <<resets, logVars>>
    /\ UNCHANGED <<playlistRef, asyncStorage, backupFile, socketVars, orphan>>
    /\ UNCHANGED playerVars
    /\ CacheIdle

RemoveAt(seq, k) == SubSeq(seq, 1, k - 1) \o SubSeq(seq, k + 1, Len(seq))

\* saveCredentials, lines 185-193: AsyncStorage.setItem settles, its failure
\* is caught, and RNFS.writeFile is called
SetItemDone(k, ok) ==
    /\ k \in 1..Len(handlers)
    /\ handlers[k].type = "paired"
    /\ handlers[k].pc = "set_item"
    /\ asyncStorage' = IF ok THEN <<handlers[k].json>> ELSE asyncStorage
    /\ handlers' = [handlers EXCEPT ![k].pc = "write_file", ![k].okItem = ok]
    /\ lastMessage' = NoMessage
    /\ UNCHANGED <<appState, pairingCode, appPlaylist, playlistRef,
                   orientation, deviceInfo, playerKey, backupFile, heartbeat,
                   delivered, socketVars, orphan, resets, logVars>>
    /\ UNCHANGED playerVars
    /\ CacheIdle

\* saveCredentials, lines 192-197: RNFS.writeFile settles, its failure is
\* caught; then case 'paired', lines 127-128
WriteFileDone(k, ok) ==
    /\ k \in 1..Len(handlers)
    /\ handlers[k].type = "paired"
    /\ handlers[k].pc = "write_file"
    /\ backupFile' = IF ok THEN <<handlers[k].json>> ELSE backupFile
    /\ heartbeat' = TRUE
    /\ appState' = "sleeping"
    /\ handlers' = RemoveAt(handlers, k)
    /\ lastMessage' =
          [NoMessage EXCEPT !.type = "paired", !.payload = handlers[k].payload,
                            !.phase = "done", !.before = handlers[k].before,
                            !.okItem = handlers[k].okItem, !.okFile = ok,
                            !.alone = handlers[k].alone]
    /\ UNCHANGED <<pairingCode, appPlaylist, playlistRef, orientation,
                   deviceInfo, playerKey, asyncStorage, delivered,
                   socketVars, orphan, resets, logVars>>
    /\ UNCHANGED playerVars
    /\ CacheIdle

\* ------------------------------------------------ app: SocketService
\* src/src/services/SocketService.ts

\* the socket this.socket names after removeAllListeners() and disconnect()
Released(ss, ref) ==
    IF ref = 0 THEN ss
    ELSE [ss EXCEPT ![ref].listeners = FALSE, ![ref].connected = FALSE,
                    ![ref].active = FALSE]

\* disconnect(), lines 232-243
disconnect ==
    /\ heartbeat' = FALSE
    /\ reconnectTimeout' = FALSE
    /\ sockets' = Released(sockets, socketRef)
    /\ socketRef' = 0

\* connect(), lines 44-52, to its await of AsyncStorage.getItem
connect(caller) ==
    /\ disconnect
    /\ connects' = Append(connects, Connecting(caller))

\* the query of lines 73-78: token and deviceId are set from a truthy token
Query(savedData) ==
    IF Truthy(savedData.token)
    THEN [token |-> savedData.token,
          deviceId |-> IF Truthy(savedData.id) THEN savedData.id
                       ELSE Undefined]
    ELSE [token |-> Undefined, deviceId |-> Undefined]

\* connect(), lines 73-125, from the end of the credential load: io() makes
\* a socket that connects by itself, this.socket names it, and the listeners
\* are attached
OpenSocket(k, savedData) ==
    /\ sockets' = Append(sockets,
          [query |-> Query(savedData), active |-> TRUE, connected |-> FALSE,
           listeners |-> TRUE, caller |-> connects[k].caller])
    /\ socketRef' = Len(sockets) + 1
    /\ connects' = RemoveAt(connects, k)
    /\ UNCHANGED reconnectTimeout

\* what no step of connect() or of the socket changes
SocketFrame ==
    /\ UNCHANGED <<appState, pairingCode, appPlaylist, playlistRef,
                   orientation, deviceInfo, playerKey, heartbeat, handlers,
                   delivered, orphan, resets, logVars>>
    /\ lastMessage' = NoMessage
    /\ UNCHANGED playerVars
    /\ CacheIdle

\* connect(), lines 52-66: AsyncStorage.getItem settles. A record is parsed
\* and the socket made; without one RNFS.exists is called; a rejection is
\* caught at line 69 and the socket made with no saved data
GetItemDone(k, ok) ==
    /\ k \in 1..Len(connects)
    /\ connects[k].pc = "get_item"
    /\ IF ok /\ asyncStorage = <<>>
       THEN /\ connects' = [connects EXCEPT ![k].pc = "exists"]
            /\ UNCHANGED <<sockets, socketRef, reconnectTimeout>>
       ELSE OpenSocket(k, IF ok THEN ParseConfig(asyncStorage[1])
                          ELSE NoConfig)
    /\ UNCHANGED <<asyncStorage, backupFile>>
    /\ SocketFrame

\* connect(), lines 58-67: RNFS.exists settles; RNFS.readFile is called when
\* the file exists
ExistsDone(k, ok) ==
    /\ k \in 1..Len(connects)
    /\ connects[k].pc = "exists"
    /\ IF ok /\ backupFile # <<>>
       THEN /\ connects' = [connects EXCEPT ![k].pc = "read_file"]
            /\ UNCHANGED <<sockets, socketRef, reconnectTimeout>>
       ELSE OpenSocket(k, NoConfig)
    /\ UNCHANGED <<asyncStorage, backupFile>>
    /\ SocketFrame

\* connect(), lines 60-64: RNFS.readFile settles, and rejects when the file
\* is gone; its text is parsed and AsyncStorage.setItem called with the
\* record stringified again
ReadFileDone(k, ok) ==
    /\ k \in 1..Len(connects)
    /\ connects[k].pc = "read_file"
    /\ IF ok /\ backupFile # <<>>
       THEN /\ connects' = [connects EXCEPT
                               ![k].pc = "set_item",
                               ![k].savedData = ParseConfig(backupFile[1])]
            /\ UNCHANGED <<sockets, socketRef, reconnectTimeout>>
       ELSE OpenSocket(k, NoConfig)
    /\ UNCHANGED <<asyncStorage, backupFile>>
    /\ SocketFrame

\* connect(), lines 64-71: the AsyncStorage.setItem of the restore settles;
\* its rejection is caught with savedData already set
RestoreDone(k, ok) ==
    /\ k \in 1..Len(connects)
    /\ connects[k].pc = "set_item"
    /\ asyncStorage' = IF ok
                       THEN <<StringifyConfig(connects[k].savedData)>>
                       ELSE asyncStorage
    /\ OpenSocket(k, connects[k].savedData)
    /\ UNCHANGED backupFile
    /\ SocketFrame

\* the socket connects, by io() or by a retry of its manager; its 'connect'
\* listener, lines 91-100, clears the reconnect timer
SocketConnect(s) ==
    /\ s \in 1..Len(sockets)
    /\ sockets[s].active
    /\ ~sockets[s].connected
    /\ sockets' = [sockets EXCEPT ![s].connected = TRUE]
    /\ reconnectTimeout' = IF sockets[s].listeners THEN FALSE
                           ELSE reconnectTimeout
    /\ UNCHANGED <<socketRef, connects, asyncStorage, backupFile>>
    /\ SocketFrame

\* the reasons of a 'disconnect' event for which the listener sets the
\* reconnect timer, lines 108-110
DropReasons == {"io server disconnect", "transport close", "ping timeout"}
\* the reasons with which a connection is lost
LossReasons == DropReasons \cup {"transport error"}

\* the connection is lost: the manager retries by itself unless the server
\* closed it; the 'disconnect' listener, lines 102-119, sets the timer
SocketDrop(s, reason) ==
    /\ s \in 1..Len(sockets)
    /\ sockets[s].connected
    /\ sockets' = [sockets EXCEPT
                      ![s].connected = FALSE,
                      ![s].active = reason # "io server disconnect"]
    /\ reconnectTimeout' =
          IF sockets[s].listeners /\ reason \in DropReasons THEN TRUE
          ELSE reconnectTimeout
    /\ UNCHANGED <<socketRef, connects, asyncStorage, backupFile>>
    /\ SocketFrame

\* `this.socket.connect()` when this.socket is set and not connected
Reconnected ==
    IF socketRef # 0 /\ ~sockets[socketRef].connected
    THEN [sockets EXCEPT ![socketRef].active = TRUE]
    ELSE sockets

\* the callback of the reconnect timer, lines 114-118
ReconnectTimerFire ==
    /\ reconnectTimeout
    /\ reconnectTimeout' = FALSE
    /\ sockets' = Reconnected
    /\ UNCHANGED <<socketRef, connects, asyncStorage, backupFile>>
    /\ SocketFrame

\* reconnect(), lines 248-256, called when the app becomes active (App.tsx
\* lines 70-77)
reconnect ==
    /\ sockets' = Reconnected
    /\ UNCHANGED <<socketRef, connects, reconnectTimeout, asyncStorage,
                   backupFile>>
    /\ SocketFrame

\* the socket can hand a message to its 'message' listener, lines 123-125
Listening(s) ==
    /\ s \in 1..Len(sockets)
    /\ sockets[s].connected
    /\ sockets[s].listeners

\* a message of the server arrives on a socket
OnMessage(s, m) ==
    /\ Listening(s)
    /\ handleMessage(m)

\* case 'unpair', lines 226-230, after clearCredentials: disconnect(),
\* setAppState('loading') and connect() to its first await
UnpairEnd(k) ==
    /\ connect("unpair")
    /\ appState' = "loading"
    /\ handlers' = RemoveAt(handlers, k)
    /\ lastMessage' =
          [NoMessage EXCEPT !.type = "unpair", !.payload = handlers[k].payload,
                            !.phase = "done", !.before = handlers[k].before,
                            !.okItem = handlers[k].okItem,
                            !.alone = handlers[k].alone]

\* what no step of an unpair handler changes
UnpairFrame ==
    /\ UNCHANGED <<pairingCode, appPlaylist, playlistRef, orientation,
                   deviceInfo, playerKey, delivered, orphan, resets,
                   logVars>>
    /\ UNCHANGED playerVars
    /\ CacheIdle

\* clearCredentials, lines 219-221: AsyncStorage.removeItem settles. Its
\* rejection leaves clearCredentials and is caught in handleMessage at line
\* 248, which ends the handler; otherwise RNFS.exists is called
RemoveItemDone(k, ok) ==
    /\ k \in 1..Len(handlers)
    /\ handlers[k].type = "unpair"
    /\ handlers[k].pc = "remove_item"
    /\ IF ok
       THEN /\ asyncStorage' = <<>>
            /\ handlers' = [handlers EXCEPT ![k].pc = "exists",
                                             ![k].okItem = TRUE]
            /\ lastMessage' = NoMessage
       ELSE /\ handlers' = RemoveAt(handlers, k)
            /\ lastMessage' =
                  [NoMessage EXCEPT !.type = "unpair",
                                    !.payload = handlers[k].payload,
                                    !.phase = "threw",
                                    !.before = handlers[k].before,
                                    !.alone = handlers[k].alone]
            /\ UNCHANGED asyncStorage
    /\ UNCHANGED <<appState, backupFile, heartbeat, socketVars>>
    /\ UnpairFrame

\* clearCredentials, lines 220-226: RNFS.exists settles; RNFS.unlink is
\* called when the file exists; a rejection is caught and the handler goes
\* on at line 226
UnpairExistsDone(k, ok) ==
    /\ k \in 1..Len(handlers)
    /\ handlers[k].type = "unpair"
    /\ handlers[k].pc = "exists"
    /\ IF ok /\ backupFile # <<>>
       THEN /\ handlers' = [handlers EXCEPT ![k].pc = "unlink"]
            /\ lastMessage' = NoMessage
            /\ UNCHANGED <<appState, heartbeat, socketVars>>
       ELSE UnpairEnd(k)
    /\ UNCHANGED <<asyncStorage, backupFile>>
    /\ UnpairFrame

\* clearCredentials, lines 222-226: RNFS.unlink settles, its rejection is
\* caught; then the handler goes on at line 226
UnlinkDone(k, ok) ==
    /\ k \in 1..Len(handlers)
    /\ handlers[k].type = "unpair"
    /\ handlers[k].pc = "unlink"
    /\ backupFile' = IF ok THEN <<>> ELSE backupFile
    /\ UnpairEnd(k)
    /\ UNCHANGED asyncStorage
    /\ UnpairFrame

\* lines 295-302: the condition under which App renders a PlayerScreen
ShowsPlayer == appState = "playing" /\ Len(appPlaylist) > 0

\* a screen mounted with the session start of the screen before it
MountKeepsSession ==
    /\ playlist' = appPlaylist
    /\ mountedKey' = playerKey
    /\ currentIndex' = 0
    /\ activeSource' = Null
    /\ currentIndexRef' = 0
    /\ standbySourceRef' = Null
    /\ activeKey' = 0
    /\ lastProgressRef' = clock
    /\ lastEndEventRef' = 0
    /\ loopCountRef' = 0
    /\ loads' = FirstLoads(appPlaylist)
    /\ errorTimers' = <<>>
    /\ errorSeen' = <<>>
    /\ nextTick' = clock + WATCHDOG_INTERVAL_MS
    /\ refreshLog' = <<>>
    /\ lastHandled' = NoEvent
    /\ endsAccepted' = 0
    /\ UNCHANGED <<variant, clock, watchdogAt, resumedAt, sessionStartRef>>

\* React mounts a PlayerScreen with the playlist and the key of this render:
\* its first render and effects
Mount ==
    /\ playlist' = appPlaylist
    /\ mountedKey' = playerKey
    /\ currentIndex' = 0
    /\ activeSource' = Null
    /\ currentIndexRef' = 0
    /\ standbySourceRef' = Null
    /\ activeKey' = 0
    /\ sessionStartRef' = clock
    /\ lastProgressRef' = clock
    /\ lastEndEventRef' = 0
    /\ loopCountRef' = 0
    /\ loads' = FirstLoads(appPlaylist)
    /\ errorTimers' = <<>>
    /\ errorSeen' = <<>>
    /\ nextTick' = clock + WATCHDOG_INTERVAL_MS
    /\ refreshLog' = <<>>
    /\ lastHandled' = NoEvent
    /\ endsAccepted' = 0
    /\ UNCHANGED <<variant, clock, watchdogAt, resumedAt>>

\* React unmounts the PlayerScreen: the interval is cleared and no `.then`
\* of its loads has an effect
Unmount ==
    /\ playlist' = <<>>
    /\ mountedKey' = 0
    /\ currentIndex' = 0
    /\ activeSource' = Null
    /\ currentIndexRef' = 0
    /\ standbySourceRef' = Null
    /\ activeKey' = 0
    /\ sessionStartRef' = 0
    /\ lastProgressRef' = 0
    /\ lastEndEventRef' = 0
    /\ loopCountRef' = 0
    /\ loads' = EmptyBag
    /\ errorTimers' = <<>>
    /\ errorSeen' = <<>>
    /\ nextTick' = 0
    /\ refreshLog' = <<>>
    /\ lastHandled' = NoEvent
    /\ endsAccepted' = 0
    /\ UNCHANGED <<variant, clock, watchdogAt, resumedAt>>

\* the error timers the screen leaves pending when it is unmounted: the
\* setTimeout of handleError (part_004 line 191, PlayerScreen.tsx line 171)
\* has no cleanup, and its callback reads the refs of the unmounted screen
Orphaned ==
    IF errorTimers = <<>> THEN orphan
    ELSE [timers |-> errorTimers, index |-> currentIndexRef,
          loops |-> loopCountRef, sessionStart |-> sessionStartRef,
          lastEnd |-> lastEndEventRef, len |-> Len(playlist)]

\* React commits the render of App's state: the effect of lines 38-40 and
\* the PlayerScreen of lines 295-302, remounted when its key has changed.
\* The timers of one unmounted screen are followed at a time.
AppRender ==
    /\ \/ playlistRef # appPlaylist
       \/ ShowsPlayer # Mounted
       \/ ShowsPlayer /\ mountedKey # playerKey
    /\ errorTimers = <<>> \/ orphan.timers = <<>>
    /\ playlistRef' = appPlaylist
    /\ IF ShowsPlayer
       THEN IF Mounted /\ mountedKey = playerKey
            THEN UNCHANGED <<playerVars, orphan>>
            ELSE Mount /\ orphan' = Orphaned
       ELSE IF Mounted THEN Unmount /\ orphan' = Orphaned
            ELSE UNCHANGED <<playerVars, orphan>>
    /\ lastMessage' = NoMessage
    /\ UNCHANGED <<appState, pairingCode, appPlaylist, orientation,
                   deviceInfo, playerKey, asyncStorage, backupFile, heartbeat,
                   handlers, delivered, socketVars, resets, logVars>>
    /\ CacheIdle

\* the error timer of an unmounted screen fires: handleVideoEnd runs on the
\* refs of that screen (part_004 lines 98-149, PlayerScreen.tsx lines
\* 78-129); its setState calls have no effect, its onRefresh is the
\* handleRefresh of App
OrphanTimerFire ==
    LET n == orphan.len
        isLastVideo == IsLastVideo(orphan.index, n)
        loops == IF variant = "simple" \/ isLastVideo THEN orphan.loops + 1
                 ELSE orphan.loops
        sessionDuration == clock - orphan.sessionStart
        shouldRefresh ==
            isLastVideo /\ (sessionDuration >= MAX_SESSION_MS \/ loops >= MAX_LOOPS)
        ignored == variant = "resilient" /\ Debounced(clock, orphan.lastEnd)
    IN
    /\ orphan.timers # <<>>
    /\ Head(orphan.timers) <= clock
    /\ IF ignored
       THEN /\ orphan' = [orphan EXCEPT !.timers = Tail(@)]
            /\ UNCHANGED <<playerKey, logVars>>
       ELSE /\ orphan' = [orphan EXCEPT
                             !.timers = Tail(@),
                             !.index = NextIndex(orphan.index, n),
                             !.loops = loops,
                             !.lastEnd = IF variant = "resilient" THEN clock
                                         ELSE @]
            /\ IF shouldRefresh
               THEN handleRefresh(<<"Memory Cleanup",
                                    Reason(sessionDuration, loops)>>,
                                  Logged(LogState))
               ELSE UNCHANGED <<playerKey, logVars>>
    /\ lastMessage' = NoMessage
    /\ UNCHANGED <<appState, pairingCode, appPlaylist, playlistRef,
                   orientation, deviceInfo, asyncStorage, backupFile,
                   heartbeat, handlers, delivered, socketVars, resets>>
    /\ UNCHANGED playerVars
    /\ CacheIdle

\* what the callbacks of the reset timers leave alone
ResetFrame ==
    /\ UNCHANGED <<appState, pairingCode, appPlaylist, playlistRef,
                   orientation, deviceInfo, playerKey, asyncStorage,
                   backupFile, heartbeat, handlers, delivered, socketVars,
                   orphan>>
    /\ lastMessage' = NoMessage
    /\ UNCHANGED playerVars
    /\ CacheIdle

\* the callback of the timer of scheduleDailyReset, lines 92-102: the log
\* is sent and the timer of the reload is set
DailyResetFire ==
    /\ resets.daily # <<>>
    /\ Head(resets.daily) <= clock
    /\ sendDiscordLog
    /\ resets' = [resets EXCEPT !.daily = <<>>,
                                !.timers = Append(@, clock + RELOAD_DELAY)]
    /\ ResetFrame

\* the callback of a reload timer, lines 99-101 and 239-241:
\* `NativeModules.DevSettings?.reload?.()` is called; what the native module
\* does with the call is outside this program
ReloadTimerFire ==
    /\ resets.timers # <<>>
    /\ Head(resets.timers) <= clock
    /\ resets' = [resets EXCEPT !.timers = Tail(@), !.reloads = @ + 1]
    /\ UNCHANGED logVars
    /\ ResetFrame

\* the messages of the types handled here
AppMessages ==
    UNION {Messages(t) : t \in SyncTypes \cup {"paired"}}

AppNext ==
    \/ \E m \in AppMessages : handleMessage(m)
    \/ \E k \in 1..MaxHandlers, ok \in BOOLEAN : SetItemDone(k, ok)
    \/ \E k \in 1..MaxHandlers, ok \in BOOLEAN : WriteFileDone(k, ok)
    \/ AppRender

\* the records an earlier run can have left in a store
Stored == {<<>>} \cup {<<StringifyConfig(i)>> : i \in {Identity("1"), Identity("2")}}

\* the messages a socket delivers in the runs of the socket
SocketMessages ==
    UNION {Messages(t) : t \in {"unpair", "stop", "hibernate"}}
      \cup {[type |-> "auth",
              payload |-> [WithIdentity(Payload, Identity("1")) EXCEPT
                              !.playlist = List(<<UrlA>>)]]}

\* App with its SocketService: the steps of connect(), of the sockets and
\* of the handlers, in any order
SocketNext ==
    \/ \E k \in 1..Len(connects), ok \in BOOLEAN : GetItemDone(k, ok)
    \/ \E k \in 1..Len(connects), ok \in BOOLEAN : ExistsDone(k, ok)
    \/ \E k \in 1..Len(connects), ok \in BOOLEAN : ReadFileDone(k, ok)
    \/ \E k \in 1..Len(connects), ok \in BOOLEAN : RestoreDone(k, ok)
    \/ \E s \in 1..Len(sockets) : SocketConnect(s)
    \/ \E s \in 1..Len(sockets), reason \in LossReasons : SocketDrop(s, reason)
    \/ ReconnectTimerFire
    \/ reconnect
    \/ \E s \in 1..Len(sockets), m \in SocketMessages : OnMessage(s, m)
    \/ \E k \in 1..MaxHandlers, ok \in BOOLEAN : RemoveItemDone(k, ok)
    \/ \E k \in 1..MaxHandlers, ok \in BOOLEAN : UnpairExistsDone(k, ok)
    \/ \E k \in 1..MaxHandlers, ok \in BOOLEAN : UnlinkDone(k, ok)

\* ------------------------------------------------------ the logger
LogStep == 2500        \* ms between two readings of the clock
LogSteps == 6          \* time steps in one run
\* the times of day at which the app of such a run is mounted: before, at
\* and after 3:00 AM
LogMounts ==
    {RESET_HOUR * HourMs - 2 * LogStep, RESET_HOUR * HourMs,
     RESET_HOUR * HourMs + LogStep}

\* a caller of the player logs: handleError, handleVideoEnd, the watchdog
\* or handleRefresh
LogCalled ==
    /\ sendDiscordLog
    /\ UNCHANGED <<appState, pairingCode, appPlaylist, playlistRef,
                   orientation, deviceInfo, playerKey, asyncStorage,
                   backupFile, heartbeat, handlers, delivered, lastMessage,
                   socketVars, orphan, resets>>
    /\ UNCHANGED playerVars
    /\ CacheIdle

\* time passes between two calls
LogElapse == Advance(LogStep, LogSteps * LogStep)

LogNext ==
    \/ LogCalled
    \/ LogElapse
    \/ \E m \in Messages("reset") : handleMessage(m)
    \/ DailyResetFire
    \/ ReloadTimerFire

\* ------------------------------------------------- player: the watchdog
WatchStep == 5000      \* ms between two readings of the clock
WatchSteps == 14       \* time steps in one run
WatchEnds == 1         \* end events accepted by one screen in such a run

\* a screen of either version that stalls and resumes, and is remounted by
\* App when it has raised a refresh; the interval callback runs when it is
\* due, before the clock is read again
WatchdogNext ==
    \/ WatchdogTick
    \/ handleProgress
    \/ OnLoad
    \/ AppActive
    \/ endsAccepted < WatchEnds /\ OnEnd
    \/ Render
    \/ \E l \in PendingLoads : \E cached \in PrefetchOutcomes(l.url) : LoadDone(l, cached)
    \/ clock < nextTick /\ Advance(WatchStep, MountTime + WatchSteps * WatchStep)
    \/ AppRender

\* ------------------------------------- player: the app in the background
AwayStep == 60000      \* ms the app stays in the background at a time

\* the app is in the background: time passes and no callback runs
Background == Pass(AwayStep, MountTime + WatchSteps * WatchStep, Away)

\* the screen of the watchdog runs, with the app going to the background and
\* coming back: the 'active' event and the interval callback that is overdue
\* run in either order
ResumeNext ==
    \/ resumedAt # Away /\ WatchdogNext
    \/ resumedAt = Away /\ AppActive
    \/ resumedAt = Away /\ WatchdogTick
    \/ Background

\* -------------------------------------------------- player: the session
PlayStep == 1000       \* ms from the start of a video to its end or error
MaxEnds == 60          \* handleVideoEnd calls accepted in one run

\* a pause in which nothing is played
IdleStep == MAX_SESSION_MS \div 2

\* the last clock reading of a run
SessionHorizon == MountTime + MAX_SESSION_MS + IdleStep

\* the loads that were pending have settled, and React has rendered
Settled == loads = EmptyBag /\ currentIndex = currentIndexRef

\* the screen is the one App shows: it has raised no refresh since its mount
Showing == mountedKey = playerKey

\* a video plays: the time of one video passes after the last event of the
\* screen, or until the error timer that is pending is due
Play ==
    /\ Showing
    /\ endsAccepted < MaxEnds
    /\ Settled
    /\ \/ clock - lastProgressRef < PlayStep
       \/ errorTimers # <<>> /\ Head(errorTimers) > clock
    /\ Advance(PlayStep, SessionHorizon)

\* nothing is played for a while
Idle ==
    /\ Showing
    /\ Settled
    /\ errorTimers = <<>>
    /\ Advance(IdleStep, MountTime + MAX_SESSION_MS)

\* the video has played to its end; one that failed does not
Played == clock - lastProgressRef >= PlayStep

\* the video fails as it starts
FailsAtStart == clock = lastProgressRef

\* a screen of either version playing its playlist, pass after pass, until it
\* raises a refresh
SessionNext ==
    \/ Showing /\ endsAccepted < MaxEnds /\ errorTimers = <<>> /\ Played /\ OnEnd
    \/ Showing /\ endsAccepted < MaxEnds /\ errorTimers = <<>> /\ FailsAtStart /\ OnError
    \/ Showing /\ endsAccepted < MaxEnds /\ ErrorTimerFire
    \/ Render
    \/ \E l \in PendingLoads : \E cached \in PrefetchOutcomes(l.url) : LoadDone(l, cached)
    \/ Play
    \/ Idle

\* a screen of either version in steady playback: each video plays to its
\* end, PlayStep after the last event; no video fails; every loadVideo
\* promise has resolved, to a cached path or to the remote url, and React
\* has rendered before the next end event
SteadyNext ==
    \/ Showing /\ endsAccepted < MaxEnds /\ Settled /\ Played /\ OnEnd
    \/ Render
    \/ \E l \in PendingLoads : \E cached \in {Path(l.url), Null} : LoadDone(l, cached)
    \/ Play
    \/ Idle

\* ------------------------------------ player: a playlist takes over
ReplaceEnds == 1       \* handleVideoEnd calls accepted by one screen

\* the messages that can assign a playlist, and stop
ReplaceMessages ==
    LET msg(type, p) == [type |-> type, payload |-> p] IN
    {msg(type, [Payload EXCEPT !.playlist = List(<<UrlB>>)]) :
        type \in {"play_list", "sync_state"}}
      \cup {msg("play", [Payload EXCEPT !.url = Str(UrlB)]),
             msg("auth", [WithIdentity(Payload, Identity("1")) EXCEPT
                             !.playlist = List(<<UrlB>>)]),
             msg("stop", NoPayload)}

\* React has committed the state of App: no render is pending
Committed ==
    /\ playlistRef = appPlaylist
    /\ ShowsPlayer = Mounted
    /\ ShowsPlayer => mountedKey = playerKey

\* a timer of the unmounted screen is due
OrphanDue == orphan.timers # <<>> /\ Head(orphan.timers) <= clock

\* a screen of either version that plays, idles and fails while messages
\* replace its playlist and App renders what they assigned; React commits
\* before the clock is read again, and a timer fires when it is due
ReplaceNext ==
    \/ \E m \in ReplaceMessages : handleMessage(m)
    \/ AppRender
    \/ OrphanTimerFire
    \/ Committed /\ endsAccepted < ReplaceEnds /\ errorTimers = <<>> /\ Played /\ OnEnd
    \/ Committed /\ endsAccepted < ReplaceEnds /\ errorTimers = <<>> /\ OnError
    \/ Committed /\ endsAccepted < ReplaceEnds /\ ErrorTimerFire
    \/ Render
    \/ \E l \in PendingLoads : \E cached \in PrefetchOutcomes(l.url) : LoadDone(l, cached)
    \/ Committed /\ ~OrphanDue /\ Play
    \/ Committed /\ orphan.timers = <<>> /\ Idle

\* the same screen under its watchdog: the interval callback runs when the
\* clock has been read and the callback is due
RefreshNext ==
    \/ ReplaceNext
    \/ Committed /\ WatchdogTick

\* ------------------------------------- player: playback that keeps running
LoopEnds == 6          \* end events before the session is two hours old

\* the session is two hours old or more
TwoHours == clock - sessionStartRef >= MAX_SESSION_MS

\* end events keep coming: any number of them once the session is two hours
\* old
KeepsPlaying == Showing /\ (endsAccepted < LoopEnds \/ TwoHours)

\* the video that has started plays
PlayOn ==
    /\ KeepsPlaying
    /\ Settled
    /\ clock - lastProgressRef < PlayStep
    /\ Advance(PlayStep, SessionHorizon)

\* the video that has played ends
EndOn == KeepsPlaying /\ Played /\ OnEnd

\* an hour passes with no end event: the app is in the background, or the one
\* item of the playlist repeats in the native player
HourOn == Showing /\ Settled /\ Advance(IdleStep, MountTime + MAX_SESSION_MS)

LoadsDone ==
    \E l \in PendingLoads : \E cached \in PrefetchOutcomes(l.url) : LoadDone(l, cached)

\* a screen of either version that plays on, with no error and no stall
LoopNext ==
    \/ EndOn
    \/ Render
    \/ LoadsDone
    \/ PlayOn
    \/ HourOn

\* ----------------------------------------- player: recovery from errors
RecoverSteps == 5      \* time steps in one run

\* the last clock reading of a run
RecoverHorizon == MountTime + RecoverSteps * TimeStep

\* the video fails, early enough for its timer to come due in the run
Fails == clock + ERROR_ADVANCE_MS <= RecoverHorizon /\ OnError

\* time passes; React has committed the render a setCurrentIndex asked for
\* before the clock is read again
Passes == currentIndex = currentIndexRef /\ Advance(TimeStep, RecoverHorizon)

\* the part_004 screen with videos that fail and end at any time
RecoverNext ==
    \/ Fails
    \/ ErrorTimerFire
    \/ OnEnd
    \/ Render
    \/ LoadsDone
    \/ Passes

\* ======================================================= specifications
\* the cache with overlapping callers, starting empty, in a build whose
\* budget is below the larger of the file sizes
Init == CacheInit /\ maxCacheMb = 100 /\ PlayerOff /\ AppInit
Next == CacheNext
Spec == Init /\ [][Next]_vars

\* the cache with one call at a time, starting empty or restarted
InitSeq == (CacheInit \/ WarmInit) /\ PlayerOff /\ AppInit
SpecSeq == InitSeq /\ [][SeqNext]_vars

\* a restarted device whose first callers overlap, as the two loadVideo calls
\* a PlayerScreen makes when it mounts do, while time passes
MaxWarmIssued == 2     \* calls issued in one run on a restarted device

WarmNext ==
    \/ \E c \in Calls, u \in SpecUrls :
          issued < MaxWarmIssued /\ getCachedPath(c, u, FALSE)
    \/ \E c \in Calls, u \in Urls :
          issued < MaxWarmIssued /\ prefetchVideo(c, u, FALSE)
    \/ \E c \in Calls :
          \/ InitExistsDone(c) \/ LoadExistsDone(c) \/ LoadReadDone(c)
          \/ GetExistsDone(c) \/ GetMissSaved(c) \/ GetHitSaved(c)
          \/ DownloadDone(c) \/ FailExistsDone(c) \/ FailUnlinkDone(c)
          \/ StatDone(c) \/ DownloadSaved(c)
          \/ EvictExistsDone(c) \/ EvictUnlinkDone(c) \/ EvictSaved(c)
    \/ Tick

\* the manifest of the earlier run: A of 60 MB accessed at 0, B of 120 MB
\* accessed at 1
WarmAB ==
    <<[url |-> UrlA, filename |-> Filename[UrlA], size |-> 60 * MB,
       accessedAt |-> 0],
      [url |-> UrlB, filename |-> Filename[UrlB], size |-> 120 * MB,
       accessedAt |-> 1]>>

InitWarm ==
    /\ WarmInit /\ maxCacheMb = 200 /\ manifestFile = <<Stringify(WarmAB)>>
    /\ PlayerOff /\ AppInit
SpecWarm == InitWarm /\ [][WarmNext]_vars

\* App showing a PlayerScreen that has just mounted: it has handled, from its
\* first state, a play_list message with the playlist, and has rendered; the
\* build has a webhook url or has none
AppShowing(url) ==
    /\ appState = "playing"
    /\ pairingCode = Str("")
    /\ appPlaylist = playlist
    /\ playlistRef = playlist
    /\ orientation = Str("0")
    /\ deviceInfo = NoDevice
    /\ playerKey = 1
    /\ asyncStorage = <<>>
    /\ backupFile = <<>>
    /\ heartbeat = FALSE
    /\ handlers = <<>>
    /\ sockets = <<[query |-> Query(NoConfig), active |-> TRUE,
                    connected |-> TRUE, listeners |-> TRUE,
                    caller |-> "mount"]>>
    /\ socketRef = 1
    /\ connects = <<>>
    /\ reconnectTimeout = FALSE
    /\ orphan = NoOrphan
    /\ resets = NoResets(MsUntilReset(Noon))
    /\ LogStart(url)
    /\ delivered = 1
    /\ lastMessage = NoMessage

\* the same in a build with a webhook url
AppPlaying == AppShowing(TRUE)

\* the resilient player, its cache calls seen through what they resolve to
InitPlayer ==
    /\ CacheInit /\ ~dirExists /\ maxCacheMb = 200
    /\ playerKey = 1
    /\ PlayerInit /\ variant = "resilient"
    /\ AppPlaying
SpecPlayer == InitPlayer /\ [][PlayerNext]_vars

\* a player of either version, stalling and resuming under its watchdog
InitWatchdog ==
    /\ CacheInit /\ ~dirExists /\ maxCacheMb = 200
    /\ playerKey = 1
    /\ PlayerInit /\ Len(playlist) <= 2
    /\ AppPlaying
SpecWatchdog == InitWatchdog /\ [][WatchdogNext]_vars

SpecResume == InitWatchdog /\ [][ResumeNext]_vars

\* a player of either version through a whole session
InitSession ==
    /\ CacheInit /\ ~dirExists /\ maxCacheMb = 200
    /\ playerKey = 1
    /\ PlayerInit
    /\ AppShowing(FALSE)
SpecSession == InitSession /\ [][SessionNext]_vars

\* a player of either version with two items or more, in steady playback
InitSteady == InitSession /\ Len(playlist) >= 2
SpecSteady == InitSteady /\ [][SteadyNext]_vars

\* a player of either version whose playlist the server replaces
InitReplace == InitSession /\ Len(playlist) <= 2
SpecReplace == InitReplace /\ [][ReplaceNext]_vars

\* the part_004 screen with two items, under its watchdog, whose playlist
\* the server replaces
InitRefresh == InitSession /\ Len(playlist) = 2 /\ variant = "resilient"
SpecRefresh == InitRefresh /\ [][RefreshNext]_vars

\* a player of either version that keeps playing: a video that plays comes
\* to its end, the player then emits onEnd, React renders a state change,
\* and a loadVideo promise settles
SpecLoop ==
    /\ InitSession
    /\ [][LoopNext]_vars
    /\ WF_vars(EndOn)
    /\ WF_vars(Render)
    /\ WF_vars(LoadsDone)
    /\ WF_vars(PlayOn)

\* the part_004 screen with failing videos: time passes, and a timer that is
\* due runs its callback
InitRecover == InitPlayer /\ Len(playlist) <= 2
SpecRecover ==
    /\ InitRecover
    /\ [][RecoverNext]_vars
    /\ WF_vars(Passes)
    /\ WF_vars(Render)
    /\ WF_vars(ErrorTimerFire)


\* App from its first render, with the messages of the server in any order
InitApp ==
    /\ CacheInit /\ ~dirExists /\ maxCacheMb = 200
    /\ PlayerOff
    /\ AppInit
SpecApp == InitApp /\ [][AppNext]_vars

\* the logger of a build with or without a webhook url, called at any time
InitLog ==
    /\ CacheInit /\ ~dirExists /\ maxCacheMb = 200
    /\ PlayerOff
    /\ \E t \in LogMounts : AppMountedAt(<<>>, <<>>, t)
    /\ \E url \in BOOLEAN : LogStart(url)
SpecLog == InitLog /\ [][LogNext]_vars

\* App and its SocketService from the first render, on a device whose stores
\* hold what an earlier run left
InitSocket ==
    /\ CacheInit /\ ~dirExists /\ maxCacheMb = 200
    /\ PlayerOff
    /\ \E item \in Stored, file \in Stored : AppStart(item, file)
SpecSocket == InitSocket /\ [][SocketNext]_vars

\* a credential save of a 'paired' handler is in flight
SaveInFlight == \E k \in 1..Len(handlers) : handlers[k].type = "paired"

\* App where a 'paired' message comes while no handler runs and an 'unpair'
\* message comes while the save of a 'paired' handler is in flight; the
\* native operations of the two handlers settle in any order, none fails
OverlapNext ==
    \/ \E m \in Messages("paired") : handlers = <<>> /\ handleMessage(m)
    \/ \E m \in Messages("unpair") : SaveInFlight /\ handleMessage(m)
    \/ \E k \in 1..MaxHandlers : SetItemDone(k, TRUE)
    \/ \E k \in 1..MaxHandlers : WriteFileDone(k, TRUE)
    \/ \E k \in 1..MaxHandlers : RemoveItemDone(k, TRUE)
    \/ \E k \in 1..MaxHandlers : UnpairExistsDone(k, TRUE)
    \/ \E k \in 1..MaxHandlers : UnlinkDone(k, TRUE)
SpecOverlap == InitSocket /\ [][OverlapNext]_vars


\* =============================================================== claims
\* the calls that have run or are running, a returned one among them for the
\* one step after its return
Observed == {Summary(calls[c]) : c \in {d \in Calls : InFlight(calls[d])}}
            \cup {lastReturned}

\* C1 (Spec): of the prefetchVideo calls for a url that is not cached which
\* overlap in time, only one runs _download: no such call starts a download
\* when an overlapping call for the url has started one.
C1_Coalescing == \A o \in Observed : ~(o.started /\ o.peerStarted)

\* C2 (SpecSeq): a prefetchVideo(url) issued right after a prefetchVideo(url)
\* returned a path, with no other cache operation, no deletion and no failing
\* native operation in between or during it, starts no download and returns
\* the same path.
C2_Idempotence ==
    \A o \in Observed :
        o.after /\ faults = 0 =>
            /\ ~o.started
            /\ o = lastReturned => o.result = Path(o.url)

\* C3 (Spec): starting from an empty cache, when a prefetchVideo call whose
\* download succeeded returns, no native operation having failed and no
\* overlapping call being between the push of its entry and the end of the
\* eviction that follows it, the sizes of the manifest entries sum to at
\* most MAX_CACHE_BYTES.
C3_EvictionBound ==
    (lastReturned.kind = "prefetch" /\ lastReturned.started
        /\ lastReturned.result = Path(lastReturned.url) /\ faults = 0
        /\ \A c \in Calls :
              calls[c].pc \notin {"dl_save", "ev_exists", "ev_unlink", "ev_save"})
    => getCacheSize(manifest) <= MAX_CACHE_BYTES

\* position j of m comes before position k in least-recently-used order:
\* older accessedAt first, equal accessedAt in manifest order
Older(m, j, k) ==
    \/ m[j].accessedAt < m[k].accessedAt
    \/ m[j].accessedAt = m[k].accessedAt /\ j < k

\* the positions of m that come before position k in that order
OlderThan(m, k) == {j \in 1..Len(m) : Older(m, j, k)}

SizeOf(m, S) == getCacheSize(SelectSeq([k \in 1..Len(m) |-> [m[k] EXCEPT
                    !.size = IF k \in S THEN m[k].size ELSE 0]],
                    LAMBDA e : TRUE))

\* position k is in the shortest least-recently-used prefix of m whose removal
\* brings the total to the budget: removing all that is older is not enough
InLruPrefix(m, k, budget) ==
    getCacheSize(m) - SizeOf(m, OlderThan(m, k)) > budget

\* C4 (SpecSeq): when the loop of evictOldVideos has ended, the entries it
\* removed from the manifest it started with are exactly the shortest prefix,
\* in ascending accessedAt order with ties in manifest order, whose removal
\* brings the total to MAX_CACHE_BYTES or less; no removed entry is newer than
\* a kept one.
C4_LruOrder ==
    \A c \in Calls :
        calls[c].pc = "ev_save" =>
            LET m == calls[c].snap
                kept == {k \in 1..Len(m) : ~InLruPrefix(m, k, MAX_CACHE_BYTES)}
            IN  /\ manifest = SelectSeq(m, LAMBDA e :
                                 \E k \in kept : m[k] = e)
                /\ \A j \in 1..Len(m), k \in kept :
                       j \notin kept => m[j].accessedAt <= m[k].accessedAt

\* the instance of the claim: budget 100 MB, A = 60 MB cached first, B = 60 MB
\* cached second; the eviction has left only B
C4_Witness ==
    \E c \in Calls :
        /\ calls[c].pc = "ev_save"
        /\ maxCacheMb = 100
        /\ Len(calls[c].snap) = 2
        /\ calls[c].snap[1].url = UrlA /\ calls[c].snap[1].size = 60 * MB
        /\ calls[c].snap[2].url = UrlB /\ calls[c].snap[2].size = 60 * MB
        /\ Len(manifest) = 1 /\ manifest[1].url = UrlB

\* the entries of m for other urls than u
Others(m, u) == SelectSeq(m, LAMBDA e : e.url # u)

\* C5 (SpecSeq): a getCachedPath(url) issued while the manifest has an entry
\* for url whose file is absent returns null, and then neither the manifest
\* in memory nor the persisted one has an entry for url, and the entries for
\* other urls are as they were.
C5_SelfHealing ==
    lastReturned.stale =>
        /\ lastReturned.result = Null
        /\ manifest = Others(lastReturned.seen, lastReturned.url)
        /\ Persisted = manifest

\* C6 (SpecSeq): prefetchVideo never rejects: it resolves to null or a path.
C6_NeverThrows ==
    lastReturned.kind = "prefetch" => lastReturned.result # Threw

\* C7 (SpecSeq): when a prefetchVideo call that ran _download does not return
\* the path, it returns null, no file is left at the target path and the
\* manifest has no entry for the url.
C7_FailedDownloadClean ==
    (lastReturned.kind = "prefetch" /\ lastReturned.started
        /\ lastReturned.result # Path(lastReturned.url))
    => /\ lastReturned.result = Null
       /\ files[Filename[lastReturned.url]] = NoFile
       /\ FindEntry(manifest, lastReturned.url) = 0

\* C8 (Spec): the manifest has at most one entry per url.
C8_UniqueKeys ==
    \A j, k \in 1..Len(manifest) : j # k => manifest[j].url # manifest[k].url


\* C9 (SpecPlayer): for a playlist of n >= 2 items the index stays in 0..n-1,
\* an accepted end event moves it to (index + 1) mod n and adds one to
\* loopCount exactly when it ends the last item; so the accepted end events
\* number loopCount * n + index, and n of them from index 0 lead back to
\* index 0 with loopCount one higher.
C9_PlaybackAdvance ==
    LET n == Len(playlist) IN
    n >= 2 =>
        /\ currentIndexRef \in 0..(n - 1)
        /\ currentIndex \in 0..(n - 1)
        /\ lastHandled.verdict = "accepted" =>
              /\ currentIndexRef = (lastHandled.index + 1) % n
              /\ loopCountRef = lastHandled.loopCount
                                  + (IF lastHandled.index = n - 1 THEN 1 ELSE 0)
        /\ endsAccepted = loopCountRef * n + currentIndexRef

\* three items, three accepted end events: the third, of the last item, has
\* brought the index back to 0 and loopCount to 1
C9_Witness ==
    /\ Len(playlist) = 3
    /\ endsAccepted = 3
    /\ lastHandled.verdict = "accepted"
    /\ lastHandled.index = 2
    /\ currentIndexRef = 0
    /\ loopCountRef = 1

\* C10 (SpecPlayer): a handleVideoEnd call, from an end event or an error
\* timer, less than 500 ms after the last accepted one changes neither the
\* index, loopCount, the active source, lastProgressRef nor the refresh
\* signals; a call 500 ms or more after it is accepted and advances the index.
C10_Debounce ==
    /\ (lastHandled.verdict # "none" /\ lastHandled.gap < 500) =>
          /\ lastHandled.verdict = "ignored"
          /\ currentIndexRef = lastHandled.index
          /\ loopCountRef = lastHandled.loopCount
          /\ activeSource = lastHandled.source
          /\ lastProgressRef = lastHandled.progress
          /\ Len(refreshLog) = lastHandled.refreshes
    /\ (lastHandled.verdict # "none" /\ lastHandled.gap >= 500) =>
          /\ lastHandled.verdict = "accepted"
          /\ currentIndexRef = (lastHandled.index + 1) % Len(playlist)
          /\ lastEndEventRef = clock

\* an end event 250 ms after an accepted one has been ignored, while progress
\* was reported in between
C10_Witness ==
    /\ lastHandled.verdict = "ignored"
    /\ lastHandled.gap = TimeStep
    /\ endsAccepted = 1
    /\ currentIndexRef = 1
    /\ lastProgressRef > lastEndEventRef

\* the stuck threshold of the mounted version, in ms
StuckThreshold == IF variant = "resilient" THEN 30000 ELSE 20000

\* a step in which the interval callback of the mounted screen runs
IsTick == nextTick' # nextTick /\ mountedKey' = mountedKey

\* what a tick does: past the threshold one refresh, otherwise nothing
TickEffect ==
    IF clock - lastProgressRef > StuckThreshold
    THEN /\ refreshLog' = Append(refreshLog, <<"Playback Stuck (Watchdog)">>)
         /\ playerKey' = playerKey + 1
         /\ watchdogAt' = Append(watchdogAt, clock)
         /\ lastProgressRef' = clock
    ELSE /\ refreshLog' = refreshLog
         /\ playerKey' = playerKey
         /\ lastProgressRef' = lastProgressRef

\* watchdog refreshes are more than the threshold apart
WatchdogSpaced ==
    \A j \in 1..(Len(watchdogAt) - 1) :
        watchdogAt[j + 1] - watchdogAt[j] > StuckThreshold

\* C11 (SpecWatchdog): a watchdog tick that finds lastProgressRef more than
\* the threshold (30 s in part_004, 20 s in PlayerScreen.tsx) behind the
\* clock raises one refresh with reason "Playback Stuck (Watchdog)" and sets
\* lastProgressRef to the clock; a tick that finds it at the threshold or
\* less raises none; no other step raises a watchdog refresh; and two
\* watchdog refreshes, of one screen or of a screen and its successor, are
\* more than the threshold apart.
C11_Watchdog ==
    /\ [][IsTick => TickEffect]_vars
    /\ [][~IsTick => watchdogAt' = watchdogAt]_vars
    /\ []WatchdogSpaced

\* the watchdog of part_004 has raised two refreshes, 35 s apart: the ticks
\* in between, the one at 30 s included, raised none
C11_Witness ==
    /\ variant = "resilient"
    /\ Len(watchdogAt) = 2
    /\ watchdogAt[2] - watchdogAt[1] = 30000 + WatchStep


\* the passes over the playlist that the accepted handleVideoEnd calls of the
\* screen have completed
PassesCompleted == endsAccepted \div Len(playlist)

\* the last handleVideoEnd call raised a session refresh with the reason given
Raised(reason) ==
    /\ lastHandled.verdict = "accepted"
    /\ Len(refreshLog) = lastHandled.refreshes + 1
    /\ refreshLog[Len(refreshLog)] = <<"Memory Cleanup", reason>>

\* C12 (SpecSession): in a session shorter than 2 hours, the handleVideoEnd
\* call that brings loopCount to 20 ends the 20th pass over the playlist,
\* raises a refresh with reason "Periodic" and leaves the active source as it
\* was; no "Periodic" refresh is raised while fewer than 20 passes have been
\* completed.
C12_SessionCeiling ==
    (lastHandled.verdict = "accepted" /\ clock - sessionStartRef < MAX_SESSION_MS) =>
        /\ (lastHandled.loopCount = MAX_LOOPS - 1 /\ loopCountRef = MAX_LOOPS) =>
              /\ lastHandled.index = Len(playlist) - 1
              /\ PassesCompleted = MAX_LOOPS
              /\ Raised("Periodic")
              /\ activeSource = lastHandled.source
        /\ Raised("Periodic") => PassesCompleted >= MAX_LOOPS


\* a step that raises a refresh is a handleVideoEnd call on the last item
RaisedOnLastOnly ==
    refreshLog' # refreshLog =>
        /\ lastHandled'.verdict = "accepted"
        /\ lastHandled'.index = Len(playlist) - 1
        /\ refreshLog' = Append(refreshLog, refreshLog'[Len(refreshLog')])

\* what a handleVideoEnd call has done about the two-hour ceiling
CeilingObeyed ==
    lastHandled.verdict = "accepted" =>
        IF lastHandled.index = Len(playlist) - 1
        THEN clock - sessionStartRef >= MAX_SESSION_MS => Raised("2hr Session")
        ELSE Len(refreshLog) = lastHandled.refreshes

\* C13 (SpecSession): a session refresh is raised only by the handleVideoEnd
\* call that ends the last playlist item; when the session has then lasted
\* 2 hours or more the reason is "2hr Session", also when loopCount is 20 or
\* more; a call that ends another item raises no refresh, however long the
\* session has lasted.
C13_TwoHourCeiling ==
    /\ [][RaisedOnLastOnly]_vars
    /\ []CeilingObeyed

\* the part_004 screen, two items: the end of the 20th pass comes after two
\* hours and is answered with "2hr Session"
C13_Witness ==
    /\ variant = "resilient"
    /\ Len(playlist) = 2
    /\ lastHandled.loopCount = MAX_LOOPS - 1
    /\ loopCountRef = MAX_LOOPS
    /\ clock - sessionStartRef >= MAX_SESSION_MS
    /\ Raised("2hr Session")


\* C14 (SpecLoop): for a playlist of any length, one item included, when a
\* video is on screen, playback keeps running and the session has lasted two
\* hours, a refresh is eventually raised.
C14_EventualRefresh == (TwoHours /\ activeSource # Null) ~> (refreshLog # <<>>)


\* a step in which handleVideoEnd accepts a call and raises no refresh, the
\* playlist having two items or more
PromotingStep ==
    /\ Len(playlist) >= 2
    /\ lastHandled'.verdict = "accepted"
    /\ endsAccepted' = endsAccepted + 1
    /\ refreshLog' = refreshLog

\* the step itself sets the active source, and neither starts nor awaits a
\* load; a standby set for the rendered index is a source of the next item
Promotes ==
    PromotingStep =>
        LET nextIdx == (currentIndexRef + 1) % Len(playlist)
            url == playlist[nextIdx + 1] IN
        /\ currentIndexRef' = nextIdx
        /\ activeSource' = IF standbySourceRef # Null THEN standbySourceRef
                            ELSE Remote(url)
        /\ loads' = loads
        /\ standbySourceRef' = standbySourceRef
        /\ currentIndex = currentIndexRef => activeSource' \in {Path(url), Remote(url)}

\* the render of the new index clears the standby and starts the load of
\* the item after it into the standby
RenderPrefetches ==
    (Len(playlist) >= 2 /\ currentIndex' # currentIndex) =>
        LET following == (currentIndexRef + 1) % Len(playlist) IN
        /\ currentIndex' = currentIndexRef
        /\ standbySourceRef' = Null
        /\ BagIn(Load("standby", playlist[following + 1]), loads')
        /\ \A l \in BagToSet(loads') :
              (l.target = "standby" /\ l.isActive) => l.url = playlist[following + 1]

\* C15 (SpecPlayer): for a playlist of two items or more, a handleVideoEnd
\* call that is accepted and raises no refresh sets the active source in the
\* same step, awaiting nothing, to the standby when there is one and to the
\* remote url of playlist[nextIndex] otherwise; the render that follows
\* starts the prefetch of playlist[(nextIndex + 1) mod n] into the standby.
C15_GaplessPromotion ==
    /\ [][Promotes]_vars
    /\ [][RenderPrefetches]_vars

\* three items: the first end promoted the cached standby, the render started
\* the prefetch of the third item, and the second end, coming before that
\* prefetch settled, fell back to the remote url of the third item
C15_Witness ==
    /\ Len(playlist) = 3
    /\ endsAccepted = 2
    /\ lastHandled.verdict = "accepted"
    /\ lastHandled.source = Path(playlist[2])
    /\ activeSource = Remote(playlist[3])
    /\ standbySourceRef = Null
    /\ \E l \in PendingLoads : l.target = "standby" /\ l.isActive /\ l.url = playlist[3]


\* handleError sets a timer for 1000 ms later and changes nothing else
ErrorSetsTimer ==
    Len(errorTimers') > Len(errorTimers) =>
        /\ errorTimers' = Append(errorTimers, clock + 1000)
        /\ UNCHANGED <<currentIndexRef, activeSource, loopCountRef, refreshLog,
                       lastProgressRef, lastEndEventRef, clock>>

\* the callback of the timer runs when the timer is due, and does what an
\* end event does at that moment: nothing within the debounce window, else
\* the advance, the loop count, and the refresh or the promotion
TimerActsAsEnd ==
    Len(errorTimers') < Len(errorTimers) =>
        LET n == Len(playlist)
            nextIdx == (currentIndexRef + 1) % n
            isLast == currentIndexRef = n - 1
            loops == loopCountRef + (IF isLast THEN 1 ELSE 0)
            refresh == isLast /\ (clock - sessionStartRef >= MAX_SESSION_MS \/ loops >= 20)
        IN
        /\ errorTimers' = Tail(errorTimers)
        /\ Head(errorTimers) <= clock
        /\ IF clock - lastEndEventRef < 500
           THEN UNCHANGED <<currentIndexRef, activeSource, loopCountRef,
                            refreshLog, lastProgressRef, lastEndEventRef>>
           ELSE /\ currentIndexRef' = nextIdx
                /\ loopCountRef' = loops
                /\ lastEndEventRef' = clock
                /\ lastProgressRef' = clock
                /\ IF refresh
                   THEN Len(refreshLog') = Len(refreshLog) + 1 /\ activeSource' = activeSource
                   ELSE /\ refreshLog' = refreshLog
                        /\ activeSource' = IF standbySourceRef # Null THEN standbySourceRef
                                            ELSE Remote(playlist[nextIdx + 1])

\* an error is waiting for its timer, raised when k calls had been accepted
FailedAfter(k) == \E j \in 1..Len(errorSeen) : errorSeen[j].ends = k

\* the sources a screen of these runs can show
RecoverSources ==
    {Path(u) : u \in {UrlA, UrlB}} \cup {Remote(u) : u \in {UrlA, UrlB}}

\* an error raised on the source src is waiting for its timer, and no
\* handleVideoEnd call has been accepted since: src is the failing source
FailingOn(k, src) ==
    FailedAfter(k) /\ endsAccepted = k /\ activeSource = src

\* a call has been accepted since, and the screen shows another source
MovedOff(k, src) == endsAccepted > k /\ activeSource # src

\* the source is the remote url of the only item of the playlist
SoleRemote(src) == Len(playlist) = 1 /\ src = Remote(playlist[1])

HandledType(type) == lastMessage.type = type /\ lastMessage.phase = "done"

\* C17 (SpecApp): a sync_state message whose playlist has the urls of the
\* current playlist, in the same order, leaves the state, the playlist and
\* playerKey as they were, whether or not the render effect has refreshed
\* playlistRef since the playlist was set.
C17_SyncNoOp ==
    (/\ HandledType("sync_state")
     /\ lastMessage.payload.playlist.kind = "array"
     /\ lastMessage.payload.playlist.items = lastMessage.before.appPlaylist) =>
        /\ appState = lastMessage.before.appState
        /\ appPlaylist = lastMessage.before.appPlaylist
        /\ playerKey = lastMessage.before.playerKey


\* C18 (SpecApp): a register message with a pairing code, handled in state
\* loading, stores the code and moves the state to pairing; handled in
\* pairing, playing or sleeping it leaves the state as it was.
C18_RegisterPrecondition ==
    (HandledType("register") /\ Truthy(lastMessage.payload.code)) =>
        IF lastMessage.before.appState = "loading"
        THEN appState = "pairing" /\ pairingCode = lastMessage.payload.code
        ELSE appState = lastMessage.before.appState


\* the store holds the identity of the payload, as JSON.parse reads it back
Holds(store, p) ==
    /\ Len(store) = 1
    /\ ParseConfig(store[1]) = [id |-> p.id, code |-> p.code, name |-> p.name,
                                token |-> p.token]

\* C19 (SpecApp): when the handler of a paired message with a payload has
\* completed, whatever the state it started in, the state is sleeping; and,
\* no other paired handler having run meanwhile, the key-value store holds
\* the identity of the payload if its write succeeded and the backup file
\* holds it if its write succeeded: both when both did, the other one when
\* one failed.
C19_Paired ==
    (HandledType("paired") /\ lastMessage.payload.present) =>
        /\ appState = "sleeping"
        /\ heartbeat
        /\ lastMessage.alone =>
              /\ lastMessage.okItem => Holds(asyncStorage, lastMessage.payload)
              /\ lastMessage.okFile => Holds(backupFile, lastMessage.payload)

\* a paired message that came in state playing: the write to the key-value
\* store failed, the backup file holds the identity, the state is sleeping
C19_Witness ==
    /\ HandledType("paired")
    /\ lastMessage.payload.present
    /\ lastMessage.alone
    /\ lastMessage.before.appState = "playing"
    /\ ~lastMessage.okItem
    /\ lastMessage.okFile
    /\ asyncStorage = <<>>
    /\ Holds(backupFile, lastMessage.payload)
    /\ lastMessage.payload.token = Str("token1")
    /\ appState = "sleeping"


\* C20 (SpecApp): an auth message with a payload, handled in any state, sets
\* the state to playing with the playlist of the payload when that is an
\* array with items, and to sleeping otherwise; the state after it is neither
\* loading nor pairing.
C20_Auth ==
    (HandledType("auth") /\ lastMessage.payload.present) =>
        LET list == lastMessage.payload.playlist IN
        /\ IF list.kind = "array" /\ list.items # <<>>
           THEN /\ appState = "playing"
                /\ appPlaylist = list.items
                /\ playerKey = lastMessage.before.playerKey + 1
           ELSE /\ appState = "sleeping"
                /\ playerKey = lastMessage.before.playerKey
        /\ appState \notin {"loading", "pairing"}

\* an auth message with an empty array, handled in state pairing, has set
\* the state to sleeping
C20_Witness ==
    /\ HandledType("auth")
    /\ lastMessage.payload.present
    /\ lastMessage.payload.playlist = List(<<>>)
    /\ lastMessage.before.appState = "pairing"
    /\ appState = "sleeping"


\* C21 (SpecApp): a play_list message carrying an array P, handled in any
\* state, sets the playlist to P and the state to playing when P has items,
\* and the playlist to empty and the state to sleeping when P is empty.
C21_PlayList ==
    (HandledType("play_list") /\ lastMessage.payload.playlist.kind = "array") =>
        LET P == lastMessage.payload.playlist.items IN
        IF P # <<>>
        THEN appPlaylist = P /\ appState = "playing"
        ELSE appPlaylist = <<>> /\ appState = "sleeping"

\* a play_list message with an empty array, handled while a playlist of two
\* items was playing, has emptied the playlist and set the state to sleeping
C21_Witness ==
    /\ HandledType("play_list")
    /\ lastMessage.payload.playlist = List(<<>>)
    /\ lastMessage.before.appState = "playing"
    /\ Len(lastMessage.before.appPlaylist) = 2
    /\ appPlaylist = <<>>
    /\ appState = "sleeping"


\* a step in which handleMessage runs a stop or a hibernate message
StopStep ==
    /\ delivered' = delivered + 1
    /\ lastMessage'.type \in {"stop", "hibernate"}

\* C22 (SpecSocket): a stop or hibernate message leaves the playlist empty
\* and the state sleeping, and changes neither the record of either store
\* nor the sockets, the socket in use or a connect() under way.
C22_StopFrame ==
    [][StopStep =>
         /\ appPlaylist' = <<>>
         /\ appState' = "sleeping"
         /\ asyncStorage' = asyncStorage
         /\ backupFile' = backupFile
         /\ sockets' = sockets
         /\ socketRef' = socketRef
         /\ connects' = connects]_vars

\* a hibernate message handled while a playlist was playing on a paired
\* device with a connected socket: sleeping, stores and socket as before
C22_Witness ==
    /\ HandledType("hibernate")
    /\ lastMessage.before.appState = "playing"
    /\ lastMessage.before.appPlaylist # <<>>
    /\ appState = "sleeping"
    /\ appPlaylist = <<>>
    /\ asyncStorage = <<StringifyConfig(Identity("1"))>>
    /\ backupFile = <<StringifyConfig(Identity("1"))>>
    /\ socketRef # 0
    /\ sockets[socketRef].connected
    /\ sockets[socketRef].query.token = Identity("1").token


\* an unpair handler has ended in the last step, at line 230 or in the
\* catch of line 248
UnpairCompleted ==
    /\ lastMessage.type = "unpair"
    /\ lastMessage.phase \in {"done", "threw"}

\* no socket is connected or has its listeners
AllReleased ==
    \A s \in 1..Len(sockets) :
        ~sockets[s].connected /\ ~sockets[s].listeners /\ ~sockets[s].active

\* C23 (SpecSocket): when an unpair handler has completed, neither store
\* holds a record, the socket that was in use is disconnected and the state
\* is loading; and the socket made by the connect() the handler called
\* carries neither token nor device id.
C23_Unpair ==
    /\ UnpairCompleted =>
          /\ asyncStorage = <<>>
          /\ backupFile = <<>>
          /\ appState = "loading"
          /\ socketRef = 0
          /\ lastMessage.alone => AllReleased
    /\ \A s \in 1..Len(sockets) :
          sockets[s].caller = "unpair" =>
              /\ sockets[s].query.token = Undefined
              /\ sockets[s].query.deviceId = Undefined


\* the record connect() is to use: the AsyncStorage item, or without one
\* the backup file
SavedRecord ==
    IF asyncStorage # <<>> THEN ParseConfig(asyncStorage[1])
    ELSE IF backupFile # <<>> THEN ParseConfig(backupFile[1])
    ELSE NoConfig

\* a step in which connect() makes its socket
OpensSocket == Len(sockets') = Len(sockets) + 1

\* the socket made in a step where a store holds a token carries that token
\* and the device id
SendsSavedToken ==
    (OpensSocket /\ Truthy(SavedRecord.token)) =>
        LET q == sockets'[Len(sockets')].query IN
        /\ q.token = SavedRecord.token
        /\ q.deviceId = SavedRecord.id

\* connect() turns to the backup file only when it found no AsyncStorage item
BackupOnlyWithoutItem ==
    \A k \in 1..Len(connects) :
        (/\ Len(connects') = Len(connects)
         /\ connects[k].pc = "get_item"
         /\ connects'[k].pc = "exists") => asyncStorage = <<>>

\* a connect() that read its record from the backup file has written it to
\* AsyncStorage when it makes its socket
RestoredBeforeConnecting ==
    \A k \in 1..Len(connects) :
        (/\ OpensSocket
         /\ connects' = RemoveAt(connects, k)
         /\ connects[k].pc = "set_item")
           => asyncStorage' = <<StringifyConfig(connects[k].savedData)>>

\* C25 (SpecSocket): when a store holds an identity with a token, the socket
\* connect() makes carries that token and the device id; the backup file is
\* consulted only when AsyncStorage has no item; and a record read from the
\* backup file is in AsyncStorage again before the socket is made.
C25_SavedToken ==
    [][/\ SendsSavedToken
       /\ BackupOnlyWithoutItem
       /\ RestoredBeforeConnecting]_vars


\* the sockets that are open with their listeners attached
Attached == {s \in 1..Len(sockets) : sockets[s].listeners}

\* C26 (SpecSocket): under every interleaving of connect(), disconnect(),
\* reconnect() and the unpair handlers at most one socket has its listeners
\* attached, so that a message sent to the device reaches handleMessage on
\* one socket only.
C26_OneSocket ==
    /\ Cardinality(Attached) <= 1
    /\ Cardinality({s \in 1..Len(sockets) : Listening(s)}) <= 1


\* the message handled in this step assigns a playlist with items: auth with
\* a playlist, play with a url, play_list, and sync_state with a url
\* sequence other than the one of playlistRef.current
AssignsPlaylist ==
    LET m == lastMessage'
        list == m.payload.playlist
        filled == list.kind = "array" /\ Len(list.items) > 0
    IN
    /\ delivered' = delivered + 1
    /\ CASE m.type = "auth" -> m.payload.present /\ filled
         [] m.type = "play" -> TruthyUrl(m.payload.url)
         [] m.type = "play_list" -> filled
         [] m.type = "sync_state" ->
                filled /\ JoinUrls(list.items) # JoinUrls(playlistRef)
         [] OTHER -> FALSE

\* React mounts a PlayerScreen in this step
MountsScreen == mountedKey' # mountedKey /\ playlist' # <<>>

\* the screen mounted in this step starts at item 0 with no loop counted, a
\* session that starts now and nothing of the screen before it
StartsFresh ==
    /\ currentIndex' = 0
    /\ currentIndexRef' = 0
    /\ loopCountRef' = 0
    /\ sessionStartRef' = clock'
    /\ standbySourceRef' = Null
    /\ activeSource' = Null
    /\ errorTimers' = <<>>
    /\ loads' = FirstLoads(playlist')

\* C24 (SpecReplace): every message that assigns a playlist with items
\* raises playerKey; and every screen React mounts is the instance of the
\* current key and starts at item 0 with loop count 0, a session start of
\* now, no standby, no source and no timer: no index, loop count or standby
\* of the screen before it.
C24_NewInstance ==
    [][/\ AssignsPlaylist => playerKey' > playerKey
       /\ MountsScreen => (StartsFresh /\ mountedKey' = playerKey')]_vars

\* a screen of two items whose session began at its mount had an error timer
\* pending when a message replaced its playlist by [UrlB]; the screen of the
\* new key shows that playlist from item 0, its session beginning now
C24_Witness ==
    /\ orphan.timers # <<>>
    /\ orphan.len = 2
    /\ orphan.sessionStart = MountTime
    /\ playerKey = 2 /\ mountedKey = 2
    /\ playlist = <<UrlB>>
    /\ currentIndexRef = 0 /\ loopCountRef = 0
    /\ standbySourceRef = Null
    /\ sessionStartRef = clock
    /\ sessionStartRef > orphan.sessionStart


\* the message lacks what its case needs, or its type has no case that acts
LacksInput(m) ==
    CASE m.type = "register" -> ~Truthy(m.payload.code)
      [] m.type \in {"paired", "auth"} -> ~m.payload.present
      [] m.type = "play" -> ~TruthyUrl(m.payload.url)
      [] m.type = "play_list" -> ~TruthyList(m.payload.playlist)
      [] m.type \in {"schedule_update", "content"} -> TRUE
      [] OTHER -> FALSE

\* C28 (SpecApp): a register message without code, a paired or auth message
\* without payload, a play message without url, a play_list message without
\* playlist, a schedule_update and a message of a type with no case are
\* handled to the end of handleMessage with no await and no exception, and
\* leave state, playlist and playerKey as they were.
C28_Ignored ==
    (lastMessage.type # "none" /\ LacksInput(lastMessage)) =>
        /\ lastMessage.phase = "done"
        /\ appState = lastMessage.before.appState
        /\ appPlaylist = lastMessage.before.appPlaylist
        /\ playerKey = lastMessage.before.playerKey

\* a register message with an empty code, handled while a playlist of two
\* items was playing, has left the state playing and the playlist in place
C28_Witness ==
    /\ HandledType("register")
    /\ lastMessage.payload.code = Str("")
    /\ appState = "playing"
    /\ Len(appPlaylist) = 2
    /\ playerKey = 2
    /\ lastMessage.before.playerKey = 2


\* any two POSTs are MIN_INTERVAL_MS apart or more
EmissionsApart ==
    \A i, j \in 1..Len(emissions) :
        i < j => emissions[j] - emissions[i] >= 5000

\* a call less than 5000 ms after the last POST has sent nothing and has
\* left lastSendTime where it was
DroppedInWindow ==
    (lastLog.called /\ lastLog.gap < 5000) =>
        /\ lastLog.outcome # "sent"
        /\ Len(emissions) = lastLog.emitted
        /\ lastSendTime = lastLog.window

\* C27 (SpecLog): any two webhook POSTs are at least 5000 ms apart; a call
\* made less than 5000 ms after the last POST is dropped: nothing is sent
\* for it, then or later, and the throttle window stays where it was.
C27_Throttle ==
    /\ EmissionsApart
    /\ DroppedInWindow

\* a call has been sent exactly 5000 ms after the POST before it although a
\* call in between was dropped: the dropped call did not move the window
C27_Witness ==
    /\ lastLog.outcome = "sent"
    /\ lastLog.gap = 5000
    /\ lastLog.droppedSince
    /\ Len(emissions) = 2
    /\ emissions[2] - emissions[1] = 5000


\* the calls that are inside loadManifest
Loading == {c \in Calls : calls[c].pc \in {"load_exists", "load_read"}}

\* one call at most is inside loadManifest, and none once the cache is
\* initialized
LoadedOnce == Cardinality(Loading) <= 1 /\ (initialized => Loading = {})

\* a loadManifest that ends when the cache is initialized leaves
\* this.manifest as it is
LaterInitKeepsManifest ==
    (initialized /\ \E c \in Loading : calls'[c].pc \notin {"load_exists", "load_read"})
        => manifest' = manifest

\* C29 (Spec): the manifest is loaded at most once per process, also when
\* init() is invoked again before an earlier init() has finished; an init()
\* that finishes later never replaces the manifest in memory, so no entry
\* is lost.
C29_SingleLoad ==
    [][LoadedOnce' /\ LaterInitKeepsManifest]_vars


\* C30 (SpecSeq): when clearAll() has returned, the manifest is empty, the
\* cache directory exists and holds no video file, and this.manifest has no
\* entry getCachedPath could find for any url; whether or not the directory
\* existed before and whether or not a native operation failed.
C30_ClearAll ==
    lastReturned.kind = "clearAll" =>
        /\ manifest = <<>>
        /\ dirExists
        /\ \A f \in Filenames : files[f] = NoFile
        /\ \A u \in Urls : FindEntry(manifest, u) = 0


\* the step in which call c, inside getCachedPath, has found the entry and
\* learns that its file exists
HitStep(c) == calls[c].pc = "get_exists" /\ calls'[c].pc = "get_hit_save"

\* the hit leaves the manifest with the url's entry at the current time and
\* every other entry, and the other fields of this one, as they were
HitRefreshes ==
    \A c \in Calls :
        HitStep(c) =>
            LET k == FindEntry(manifest', calls[c].url) IN
            /\ k # 0
            /\ Len(manifest') = Len(manifest)
            /\ manifest'[k].accessedAt = now
            /\ \A j \in 1..Len(manifest) :
                   manifest'[j] = IF j = k
                                  THEN [manifest[j] EXCEPT !.accessedAt = now]
                                  ELSE manifest[j]

\* the step in which the eviction of call c drops an entry from the manifest
\* leaves no entry that was accessed before the dropped one
EvictsOlderFirst ==
    \A c \in Calls :
        (calls[c].pc \in {"ev_exists", "ev_unlink"}
            /\ calls'[c].i = calls[c].i + 1)
        => \A j \in 1..Len(manifest') :
               manifest'[j].accessedAt >= calls[c].sorted[calls[c].i].accessedAt

\* C31 (SpecWarm): a cache hit refreshes recency: when getCachedPath(url),
\* called directly or by prefetchVideo, finds the entry and its file, the
\* manifest entry of url gets accessedAt = Date.now() and no other entry
\* changes; and an eviction drops no entry while an entry accessed before it
\* is still in the manifest, so that it drops the entry that was hit after
\* every older one.
C31_HitRefreshes == [][HitRefreshes /\ EvictsOlderFirst]_vars

\* the same with one call at a time: the manifest A, B of an earlier run, A
\* hit at time 2 and never downloaded again, and the eviction that follows
\* the download of C has dropped B and kept A
C31_Witness ==
    \E c \in Calls :
        /\ calls[c].pc = "ev_save"
        /\ Len(calls[c].snap) = 3
        /\ calls[c].snap[1].url = UrlA /\ calls[c].snap[1].accessedAt = 2
        /\ calls[c].snap[2].url = UrlB
        /\ downloadsStarted[UrlA] = 0
        /\ FindEntry(manifest, UrlA) # 0 /\ FindEntry(manifest, UrlB) = 0


\* a step in which the AppState listener ran sets lastProgressRef to the clock
ResumeMarks ==
    (resumedAt' # resumedAt /\ resumedAt' # Away) => lastProgressRef' = clock

\* a step in which a watchdog raises a refresh is no step of an app that is
\* back from the background with its 'active' event still to come, and is
\* more than the threshold after the last 'active' event
QuietAfterResume ==
    watchdogAt' # watchdogAt =>
        /\ resumedAt # Away
        /\ resumedAt # NoResume => clock - resumedAt > StuckThreshold

\* C32 (SpecResume): foreground resume: when the app is back in the
\* foreground lastProgressRef is set to the current time, and no watchdog
\* refresh is raised from the return on until more than the stuck threshold
\* has passed, whether the app was in the background for a minute or not at
\* all.
C32_ForegroundResume == [][ResumeMarks /\ QuietAfterResume]_vars


\* the screen of part_004 plays a playlist of one item whose first source has
\* been set
SingleLoaded ==
    variant = "resilient" /\ Len(playlist) = 1 /\ activeSource # Null

\* a step that leaves the source, keeps the standby empty and starts no
\* loadVideo
LoopsInPlace ==
    /\ activeSource' = activeSource
    /\ standbySourceRef = Null /\ standbySourceRef' = Null
    /\ loads' \sqsubseteq loads

\* C33 (SpecPlayer): single-item playlist: once the first source of a
\* one-item playlist has been set, no step changes the active source, fills
\* the standby or starts a loadVideo (a call of the cache), whatever end
\* events and playback errors occur; the source is never switched to the
\* remote url.
C33_SingleItem == [][SingleLoaded => LoopsInPlace]_vars


\* a step in which handleRefresh runs: the key changes, and no message is
\* taken up or carried on
RefreshStep ==
    playerKey' # playerKey /\ delivered' = delivered /\ handlers' = handlers

\* the refresh leaves the session state and the playlist of App, and makes
\* the key one that no mounted screen has
RefreshKeepsSession ==
    RefreshStep =>
        /\ appState' = appState
        /\ appPlaylist' = appPlaylist
        /\ playerKey' = playerKey + 1
        /\ mountedKey' # playerKey'

\* the screen React mounts starts at index 0 with loopCount 0 and a session
\* that begins now, on the playlist of App
InstanceRestarts ==
    (mountedKey' # mountedKey /\ mountedKey' # 0) =>
        /\ mountedKey' = playerKey
        /\ playlist' = appPlaylist
        /\ currentIndex' = 0 /\ currentIndexRef' = 0
        /\ loopCountRef' = 0
        /\ sessionStartRef' = clock

\* the session state changes only in a step of handleMessage
StateByMessage ==
    appState' # appState => delivered' # delivered \/ handlers' # handlers

\* C34 (SpecRefresh): refresh signals do not move the session state machine:
\* a refresh raised by the watchdog or by the session or loop ceiling leaves
\* the session state and the playlist as they are and only advances the key,
\* so that the playback instance is replaced by one that starts at index 0
\* with loopCount 0 and a new session start; the session state changes only
\* while a protocol message is handled.
C34_RefreshFrame ==
    [][RefreshKeepsSession /\ InstanceRestarts /\ StateByMessage]_vars

\* no message has come; the watchdog of the first screen raised a refresh,
\* and the screen that replaced it plays the same playlist from index 0
C34_Witness ==
    /\ delivered = 1
    /\ Len(watchdogAt) = 1
    /\ appState = "playing"
    /\ playerKey = 2 /\ mountedKey = 2
    /\ playlist = appPlaylist
    /\ currentIndexRef = 0 /\ loopCountRef = 0
    /\ sessionStartRef = watchdogAt[1]


\* C35 (SpecSeq): a returned path is usable: when prefetchVideo(url) has
\* resolved to a path, no file having been deleted out-of-band during the
\* call, the manifest has an entry for url and the file of that path is on
\* disk, whatever the size of the file.
C35_PathUsable ==
    (lastReturned.kind = "prefetch" /\ lastReturned.result.tag = "path"
        /\ ~lastReturned.disturbed)
    => /\ FindEntry(manifest, lastReturned.url) # 0
       /\ files[lastReturned.result.file] # NoFile


\* the sources the item after the rendered index can have
NextSources ==
    LET u == playlist[((currentIndex + 1) % Len(playlist)) + 1] IN
    {Path(u), Remote(u)}

\* the standby of part_004 is empty or a source of the item after the
\* rendered index
StandbyConsistent ==
    (variant = "resilient" /\ Len(playlist) >= 2)
    => standbySourceRef \in {Null} \cup NextSources

\* a step in which a standby load settles whose effect has been cleaned up,
\* the index having been rendered anew since it started, leaves the standby
\* and the active source
StaleDiscarded ==
    \A l \in PendingLoads :
        (variant = "resilient" /\ l.target = "standby" /\ ~l.isActive
            /\ loads' = Without(loads, l))
        => standbySourceRef' = standbySourceRef /\ activeSource' = activeSource

\* C36 (SpecPlayer): standby slot consistency of part_004: in every state,
\* whatever the order in which the prefetches complete, the standby is
\* empty or the cached path or remote url of playlist[(currentIndex + 1)
\* mod n], currentIndex being the index last rendered; the result of a
\* prefetch started for an earlier index that completes after the index has
\* advanced becomes neither the standby nor the active source.
C36_StandbyConsistent == []StandbyConsistent /\ [][StaleDiscarded]_vars

\* three items, index 1 rendered: the prefetch of the third item has
\* completed and filled the standby, while the prefetch of the second item,
\* started for index 0, is still to complete
C36_Witness ==
    /\ variant = "resilient"
    /\ Len(playlist) = 3
    /\ currentIndex = 1
    /\ standbySourceRef = Path(playlist[3])
    /\ \E l \in PendingLoads :
          l.target = "standby" /\ ~l.isActive /\ l.url = playlist[2]


\* C37 (SpecApp): state sync converges: when a sync_state message that
\* carries a non-empty playlist P has been handled, React having committed
\* the state of App before it came, the session state is playing and the
\* playlist of App is P, whatever messages came before.
C37_SyncConverges ==
    (/\ HandledType("sync_state")
     /\ HasItems(lastMessage.payload.playlist)
     /\ lastMessage.before.playlistRef = lastMessage.before.appPlaylist) =>
        /\ appState = "playing"
        /\ appPlaylist = lastMessage.payload.playlist.items


\* C38 (SpecOverlap): unpair wins over an in-flight save: when an unpair
\* message was handled while the credential save of an earlier paired
\* message was in flight, then once both handlers have completed neither
\* AsyncStorage nor the backup file holds an identity.
C38_UnpairWins ==
    (/\ handlers = <<>>
     /\ lastMessage.phase = "done"
     /\ lastMessage.type \in {"paired", "unpair"}
     /\ ~lastMessage.alone) =>
        /\ asyncStorage = <<>>
        /\ backupFile = <<>>


\* C39 (SpecSteady): the two versions of PlayerScreen agree on the playback
\* sequence: with n >= 2 items, end events more than 500 ms apart, no error
\* and every prefetch done before the next end event, a screen of either
\* version has, after k end events, the index, the loop count, the active
\* source and the refresh signals that the part_004 version has after k end
\* events: index k mod n, loop count k div n, a source of the item at that
\* index, and a refresh signal only at the end of a pass, raised when that
\* pass is the 20th or the session is two hours old.
SameIndex == currentIndexRef = endsAccepted % Len(playlist)
SameLoops == loopCountRef = endsAccepted \div Len(playlist)
SameSource ==
    (Showing /\ Settled /\ activeSource # Null) =>
        activeSource \in {Path(playlist[currentIndexRef + 1]),
                          Remote(playlist[currentIndexRef + 1])}
SameSignals ==
    /\ refreshLog # <<>> =>
          /\ endsAccepted % Len(playlist) = 0
          /\ TwoHours \/ PassesCompleted >= MAX_LOOPS
    /\ (endsAccepted > 0 /\ endsAccepted % Len(playlist) = 0
         /\ PassesCompleted >= MAX_LOOPS) => refreshLog # <<>>
C39_VariantsAgree == SameIndex /\ SameLoops /\ SameSource /\ SameSignals
====
